---- MODULE Spec2Model ----
(***************************************************************************)
(* A model of models.Cluster (src/unnamed/part_000): the refresh pipeline  *)
(* Cluster.update with its panic recovery and its gate, the node map with  *)
(* AddNode / RemoveNodeByAddress, the aggregate swap-in of updateStats and *)
(* its unlocked readers, the Backup / Restore start, shouldAutoRemove and  *)
(* the mail delivery tasks of SendEmailNotifications.                      *)
(*                                                                         *)
(* Goroutines are processes with a program counter; a step is one access   *)
(* to shared state (or one critical section entry / exit of c.mutex).      *)
(***************************************************************************)
EXTENDS Integers, Sequences, FiniteSets, TLC

----------------------------------------------------------------------------
(* Bounds of the model *)

\* number of clock ticks (seconds) the model lets pass
MaxTime == 2
\* the longest interval (seconds) of the configuration: AMC.UpdateInterval,
\* and the largest AMC.InactiveDurBeforeRemoval
MaxInterval == 1
\* number of Node objects newNode may create
MaxNodes == 2
\* number of calls of Cluster.update
MaxUpdates == 2
\* number of Backup and Restore objects the calls may make
MaxHandles == 3
\* number of alerts whose mail is under way
MaxAlerts == 2
\* number of nodes of the cluster the build and name queries run on
MaxQueryNodes == 3
MaxJobs == 1
MaxDcEntries == 2
MaxPct == 2
\* line 605: for i := 0; i < 5; i++
MaxAttempts == 5
\* the longest debug session a request asks for, in minutes
MaxMinutes == 1
\* time.Minute, in seconds
Minute == 60

\* the wall clock starts long after the zero time.Time, so that
\* time.Since(zero) exceeds every interval of the configuration
StartTime == MaxInterval + 1

----------------------------------------------------------------------------
(* Values *)

\* as.Host{Name, Port}
Host(name, port) == <<name, port>>
\* as.Host.String(), "name:port", kept as the pair of its two parts
HostString(h) == [addr |-> h[1], port |-> h[2]]

Ports == {3000}
\* the nodes the database client may report, as.Node: GetHost(), GetName()
CNodes ==
    { [host |-> Host("n1", 3000), name |-> "A"],
      [host |-> Host("n2", 3000), name |-> "B"],
      [host |-> Host("n1", 3000), name |-> "B"] }
NoNode == [host |-> Host("", 0), name |-> ""]

\* what client.GetNodes() can return: one as.Node per host and per name
GetNodesChoices ==
    { S \in SUBSET CNodes :
        \A x, y \in S : (x.host = y.host \/ x.name = y.name) => x = y }

\* resolveHost(address): the addresses a name resolves to, or an error (<<>>)
ResolveTable ==
    [a \in {"n1", "n2", "db", "bad"} |->
        CASE a = "n1" -> <<"n1">>
          [] a = "n2" -> <<"n2">>
          [] a = "db" -> <<"n2", "n1">>
          [] OTHER    -> <<>>]
Addresses == DOMAIN ResolveTable
resolveHost(address) == ResolveTable[address]

AggFields == {"aggNodeStats", "aggNodeCalcStats", "aggNsStats",
              "aggNsCalcStats", "aggTotalNsStats", "aggNsSetStats"}

----------------------------------------------------------------------------
VARIABLES
    \* Cluster fields
    client,          \* c.client != nil
    nodes,           \* c.nodes: as.Host -> *Node (an index of nodeObjs)
    nodeObjs,        \* the Node objects ever created: origHost, _origNode, status
    lastUpdate,      \* c.lastUpdate
    updateInterval,  \* c.updateInterval
    userSet,         \* c.user != nil && len(*c.user) > 0
    agg,             \* the six aggregate fields: the refresh that computed each
    jobs,            \* c.jobs: the refresh that stored it (0: never stored)
    users,           \* c.users, c.roles: the refresh that stored them
    privs,           \* c.currentUserPrivileges
    dcInfo,          \* c._datacenterInfo
    mutexW,          \* holder of the write side of c.mutex
    \* the environment
    now,             \* time.Now(), seconds
    crashed,         \* an unrecovered panic ended the process
    \* the goroutine running Cluster.update
    upc, updCalls, refreshNo, gate, ucTodo, ucCur, ucNode, wgCount, usTasks,
    tm, panicked, trace, spawned, lastUpdateAtCall,
    \* the goroutine of an HTTP handler
    hpc, harg, hloc, hres,
    \* inactivity: the fields shouldAutoRemove reads
    permanent,       \* c.permanent
    lastPing,        \* c.lastPing
    inactiveDur,     \* c.observer.config.AMC.InactiveDurBeforeRemoval
    sar,             \* the last call of shouldAutoRemove: what it saw and returned
    \* backup and restore
    active,          \* c.activeBackup, c.activeRestore: a handle, or 0 for nil
    handles,         \* the Backup / Restore objects ever made
    bpc, bkind, bres, \* the goroutines calling Backup or Restore
    \* alert mail
    alertQueue,      \* the new alerts in c.alerts, not drained yet
    mailerHost,      \* whether Config().Mailer.Host is non-empty
    mailTasks,       \* the goroutines of lines 604-614, one per drained alert
    \* closing
    closes,          \* how often c.client.Close() ran on the client
    closeFailed,     \* a closing call panicked
    \* builds, names and the alias
    qnodes,          \* c.Nodes() as the queries see it: Address, Build, ClusterName
    alias,           \* c.alias, a *string: <<name>>, or << >> for nil
    qres,            \* the last query and what it returned
    \* the job list
    jpc,             \* updateJobs: "idle", or "collect" inside its loop
    jtodo,           \* the nodes of c.Nodes() its loop has yet to visit
    jlocal,          \* its local res
    jlist,           \* the slice c.jobs holds once something was stored
    jlast,           \* the res of the updateJobs that returned last
    jread,           \* the last call of Jobs and what it returned
    \* the alert bucket by ids
    abNext,          \* the id of the alert appended last (0: none yet)
    abCursor,        \* the last-drained cursor
    abSince,         \* the alerts appended since a DrainNewAlerts took its alerts last
    drainers,        \* the goroutines of line 556, each in SendEmailNotifications
    handed,          \* per alert id, how often it was handed to a delivery
    \* the credentials
    cuser,           \* c.user, a *string: <<name>>, or << >> for nil
    cpassword,       \* c.password, a *string
    serverPw,        \* per user, the password the server holds
    pwres,           \* the last UpdatePassword: its arguments and what it did
    \* the datacenter view
    dcEntries,       \* the datacenters the nodes report, one entry per node and name
    monitoredBy,     \* observer.NodeHasBeenDiscovered: per address a cluster id, or ""
    dcpc,            \* datacenterInfo: "idle", "loop" or "returned"
    dcTodo,          \* the entries its loops have yet to visit
    xdrInfo,         \* its local xdrInfo: per key << >>, or <<shipping_namespaces>>
    remoteNodeStats, \* its local remoteNodeStats, per address
    \* the namespace view
    nsAvail,         \* per node: whether it has the namespace, and its available_pct
    nspc,            \* NamespaceInfo: "idle", "loop" or "returned"
    nsTodo,          \* the nodes its loop has yet to visit
    nsOrder,         \* the nodes visited, in order
    nsLeast,         \* res[nsName]["least_available_pct"]: node 0 and value -1 for nil
    \* c.mutex as an RWMutex, and the goroutines that take it
    rwReaders,       \* per goroutine, the read locks it holds
    rwWriter,        \* the goroutine holding the write lock, or "none"
    rwWaiting,       \* the goroutines blocked in Lock
    lpc,             \* per goroutine, where it is in its operation
    \* the debug switch of the observer and its HTTP endpoint
    debug,           \* the debug-status record: on, initiator, start, expiry
    dreq,            \* the last request to /debug
    dres,            \* what its handler called on the observer, and its response
    \* updateCluster
    ucReported,      \* the slice c.client.GetNodes() returned, while the loop runs
    \* update's wait group argument
    wgGiven,         \* whether the running call of update got a non-nil wg
    wgDones          \* how often the running call has signalled wg.Done()

clusterVars == <<client, nodes, nodeObjs, lastUpdate, updateInterval, userSet,
                 agg, jobs, users, privs, dcInfo, mutexW>>
envVars     == <<now, crashed>>
updVars     == <<upc, updCalls, refreshNo, gate, ucTodo, ucCur, ucNode, wgCount,
                 usTasks, tm, panicked, trace, spawned, lastUpdateAtCall>>
hVars       == <<hpc, harg, hloc, hres>>

\* the variables of the other components, which the cluster's steps leave alone
pingVars    == <<permanent, lastPing, inactiveDur, sar>>
backupVars  == <<active, handles, bpc, bkind, bres>>
mailVars    == <<alertQueue, mailerHost, mailTasks>>
closeVars   == <<closes, closeFailed>>
queryVars   == <<qnodes, alias, qres>>
jobVars     == <<jpc, jtodo, jlocal, jlist, jlast, jread>>
drainVars   == <<abNext, abCursor, abSince, drainers, handed>>
pwVars      == <<cuser, cpassword, serverPw, pwres>>
dcVars      == <<dcEntries, monitoredBy, dcpc, dcTodo, xdrInfo, remoteNodeStats>>
nsVars      == <<nsAvail, nspc, nsTodo, nsOrder, nsLeast>>
lockVars    == <<rwReaders, rwWriter, rwWaiting, lpc>>
debugVars   == <<debug, dreq, dres>>
viewVars    == <<pwVars, dcVars, nsVars, lockVars, debugVars>>
localVars   == <<ucReported, wgGiven, wgDones>>
opsVars     == <<closeVars, queryVars, jobVars, drainVars, viewVars, localVars>>
restVars    == <<pingVars, backupVars, mailVars, opsVars>>

vars == <<clusterVars, envVars, updVars, hVars, restVars>>

----------------------------------------------------------------------------
(* Node *)

\* newNode(cluster, origNode): origHost is the handle's host when there is one
newNode(orig) == [host |-> orig.host, orig |-> orig, status |-> "off"]
\* Node.Address(): origHost.String()
Address(n) == HostString(n.host)
\* Node.Id(): the name of the underlying as.Node
NodeId(n) == n.orig.name
\* Node.update(): the info poll succeeds only through a live handle
NodePollResults(n) == IF n.orig = NoNode THEN {"off"} ELSE {"on", "off"}

\* Cluster.Nodes(): the values of c.nodes
Nodes == { nodes[h] : h \in DOMAIN nodes }
\* Cluster.NodeList()
NodeList == { Address(nodeObjs[i]) : i \in Nodes }
\* were no Node ever found by its address
findNodeByAddressNone(address) == {}

\* Cluster.FindNodeByAddress(address): the candidates (map order is random)
FindNodeByAddress(address) == { i \in Nodes : Address(nodeObjs[i]) = address }
\* Cluster.FindNodeById(id)
FindNodeById(id) == { i \in Nodes : NodeId(nodeObjs[i]) = id }

\* time.Since(t), seconds
Since(t) == now - t
\* were the interval to be exceeded, not reached
shouldUpdateStrict == Since(lastUpdate) > updateInterval
\* Cluster.shouldUpdate()
shouldUpdate == Since(lastUpdate) >= updateInterval
\* Cluster.IsSet()
IsSet == client

\* were Unlock not deferred: a panic leaves the lock held
NoDeferredUnlock(m) == m
\* defer c.mutex.Unlock(): runs on return and on panic
DeferredUnlock(m) == IF m = "update" THEN "none" ELSE m

----------------------------------------------------------------------------
(* Init: the state after newCluster(observer, client, ...) *)

RECURSIVE SeqOf(_)
\* the elements of a set in some order (client.GetNodes() returns a slice)
SeqOf(S) == IF S = {} THEN << >>
            ELSE LET x == CHOOSE y \in S : TRUE IN <<x>> \o SeqOf(S \ {x})

\* newCluster: one Node per node the client reports, keyed by its host
ClusterInit(S, interval, u) ==
    /\ client = TRUE
    /\ LET q == SeqOf(S) IN
         /\ nodeObjs = [i \in 1..Len(q) |-> newNode(q[i])]
         /\ nodes = [h \in {q[i].host : i \in 1..Len(q)} |->
                        CHOOSE i \in 1..Len(q) : q[i].host = h]
    /\ lastUpdate = 0
    /\ updateInterval = interval
    /\ userSet = u
    /\ agg = [f \in AggFields |-> 0]
    /\ jobs = 0
    /\ users = 0
    /\ privs = 0
    /\ dcInfo = 0
    /\ mutexW = "none"
    /\ now = StartTime
    /\ crashed = FALSE

InitCluster ==
    \E S \in GetNodesChoices, u \in BOOLEAN :
        ClusterInit(S, MaxInterval, u)

\* a cluster of no node, for the components that do not read the node map
ClusterAtRest == ClusterInit({}, MaxInterval, FALSE)

InitUpdate ==
    /\ upc = "idle"
    /\ updCalls = 0
    /\ refreshNo = 0
    /\ gate = "none"
    /\ ucTodo = {}
    /\ ucCur = NoNode
    /\ ucNode = 0
    /\ wgCount = 0
    /\ usTasks = {}
    /\ tm = 0
    /\ panicked = FALSE
    /\ trace = << >>
    /\ spawned = 0
    /\ lastUpdateAtCall = 0

InitHandler ==
    /\ hpc = "idle"
    /\ harg = << >>
    /\ hloc = << >>
    /\ hres = [op |-> "none"]

\* newCluster leaves permanent false and lastPing the zero time
PingInit(dur) ==
    /\ permanent = FALSE
    /\ lastPing = 0
    /\ inactiveDur = dur
    /\ sar = [called |-> FALSE]

InitPing == \E dur \in -1..MaxInterval : PingInit(dur)
PingAtRest == PingInit(0)

\* the goroutines that call Backup or Restore
Callers == {"c1", "c2"}
Kinds == {"backup", "restore"}

\* newCluster leaves activeBackup and activeRestore nil
InitBackup ==
    /\ active = [k \in Kinds |-> 0]
    /\ handles = << >>
    /\ bpc = [c \in Callers |-> "idle"]
    /\ bkind = [c \in Callers |-> "backup"]
    /\ bres = [c \in Callers |-> "none"]

\* no alert yet; the mailer is configured or not
MailInit(host) ==
    /\ alertQueue = 0
    /\ mailerHost = host
    /\ mailTasks = << >>

InitMail == \E host \in BOOLEAN : MailInit(host)
MailAtRest == MailInit(FALSE)

\* the client of newCluster is open
InitClose ==
    /\ closes = 0
    /\ closeFailed = FALSE

\* a *string: nil, or the pointer to a string
NoAlias == << >>
StringPtr(str) == <<str>>
\* the builds a node may report, as the numbers between the dots; a node
\* not polled yet reports the empty string
Builds == { << >>, <<3, 12, 0>>, <<4, 6, 0>>, <<4, 10, 0>> }
\* the cluster names a node may report
ClusterNames == {"", "null", "prod"}

\* a cluster of n nodes with the given reports; newCluster keeps an alias
\* that is not empty (lines 70-72)
QueryInit(n, a, B, N) ==
    /\ qnodes \in [1..n -> [build : B, cname : N]]
    /\ alias = a
    /\ qres = [op |-> "none"]

\* the nodes report builds
InitBuilds == \E n \in 0..MaxQueryNodes : QueryInit(n, NoAlias, Builds, {""})
\* the nodes report cluster names
InitNames ==
    \E n \in 0..MaxQueryNodes, a \in {NoAlias, StringPtr("amc")} :
        QueryInit(n, a, {<< >>}, ClusterNames)
QueryAtRest == QueryInit(0, NoAlias, Builds, ClusterNames)

InitJobs ==
    /\ jpc = "idle"
    /\ jtodo = {}
    /\ jlocal = << >>
    /\ jlist = << >>
    /\ jlast = << >>
    /\ jread = [op |-> "none"]

\* NewAlertBucket, line 83: nothing appended, nothing drained
LocalsAtRest == ucReported = {} /\ wgGiven = FALSE /\ wgDones = 0

InitDrain ==
    /\ abNext = 0
    /\ abCursor = 0
    /\ abSince = 0
    /\ drainers = << >>
    /\ handed = [id \in 1..MaxAlerts |-> 0]

UserNames == {"admin", "bob"}
Passwords == {"p1", "p2"}

\* newCluster, lines 86-89: with a user, the user and the password are kept
PasswordInit(u, pw) ==
    /\ cuser = u
    /\ cpassword = pw
    /\ serverPw \in [UserNames -> Passwords]
    /\ pwres = [op |-> "none"]

InitPassword ==
    \/ PasswordInit(NoAlias, NoAlias)
    \/ \E u \in UserNames, pw \in Passwords : PasswordInit(StringPtr(u), StringPtr(pw))

PasswordAtRest ==
    /\ cuser = NoAlias
    /\ cpassword = NoAlias
    /\ serverPw = [u \in UserNames |-> "p1"]
    /\ pwres = [op |-> "none"]

\* the remote addresses; "c" has no port and SplitHostPort fails on it
RemoteAddrs == {"a:3000", "b:3000", "c"}
ClusterIds == {"X", "Y"}
NamespaceLists == { <<"test">>, <<"bar", "test">> }
XdrKeys == RemoteAddrs \cup ClusterIds

\* no key in remoteNodeStats
NoRemote == [present |-> FALSE, isNil |-> FALSE, seednode |-> "", node |-> "",
             status |-> ""]

DcEntryChoices ==
    [Nodes : { <<a>> : a \in RemoteAddrs }
               \cup { <<pr[1], pr[2]>> :
                        pr \in { q \in RemoteAddrs \X RemoteAddrs : q[1] # q[2] } },
     namespaces : NamespaceLists]

DatacenterInit(entries, mon) ==
    /\ dcEntries = entries
    /\ monitoredBy = mon
    /\ dcpc = "idle"
    /\ dcTodo = {}
    /\ xdrInfo = [k \in XdrKeys |-> << >>]
    /\ remoteNodeStats = [a \in RemoteAddrs |-> NoRemote]

InitDatacenter ==
    \E n \in 1..MaxDcEntries :
      \E entries \in [1..n -> DcEntryChoices],
         mon \in [RemoteAddrs -> ClusterIds \cup {""}] :
           mon["c"] = "" /\ DatacenterInit(entries, mon)

DatacenterAtRest == DatacenterInit(<< >>, [a \in RemoteAddrs |-> ""])

\* {"node": nil, "value": nil}
NilLeast == [node |-> 0, value |-> -1]

\* a node without the namespace, or with it: TryFloat("available_pct", -1)
NsReports ==
    {[has |-> FALSE, pct |-> -1]} \cup [has : {TRUE}, pct : -1..MaxPct]

NamespaceInit(avail) ==
    /\ nsAvail = avail
    /\ nspc = "idle"
    /\ nsTodo = {}
    /\ nsOrder = << >>
    /\ nsLeast = NilLeast

InitNamespace ==
    \E n \in 1..MaxNodes : \E avail \in [1..n -> NsReports] : NamespaceInit(avail)

NamespaceAtRest == NamespaceInit(<< >>)

\* the goroutines that take c.mutex: Alias (452), SetAlias (468), registerNode
\* (707), the aggregate swap-in of updateStats, and a reader calling Nodes (349)
LockOps == {"Alias", "SetAlias", "registerNode", "updateStats", "Nodes"}

LockAtRest ==
    /\ rwReaders = [g \in LockOps |-> 0]
    /\ rwWriter = "none"
    /\ rwWaiting = {}
    /\ lpc = [g \in LockOps |-> "idle"]

\* no initiator: nil
NoInitiator == << >>

\* the debug record of a new observer: off
DebugOff == [on |-> FALSE, initiator |-> NoInitiator, start |-> 0, expiry |-> 0]

DebugAtRest ==
    /\ debug = DebugOff
    /\ dreq = [method |-> "none"]
    /\ dres = [call |-> [op |-> "none"]]

ViewAtRest ==
    PasswordAtRest /\ DatacenterAtRest /\ NamespaceAtRest /\ LockAtRest /\ DebugAtRest

OpsAtRest == InitClose /\ QueryAtRest /\ InitJobs /\ InitDrain /\ LocalsAtRest /\ ViewAtRest

RestAtRest == PingAtRest /\ InitBackup /\ MailAtRest /\ OpsAtRest

Init == InitCluster /\ InitUpdate /\ InitHandler /\ RestAtRest

----------------------------------------------------------------------------
(* Cluster.update(wg): the refresh pipeline, one goroutine                  *)

\* the phases of update, as they are named in trace
PhaseOrder == <<"updateCluster", "updateStats", "updateJobs", "updateUsers",
                "updateDatacenterInfo", "checkHealth", "setUpdatedAt",
                "SendEmailNotifications">>

\* the places of update where a phase may panic: the entry of each phase and
\* each critical section (c.mutex held)
PanicPcs == {"uc_get", "uc_write", "us_add", "us_install", "uj", "uu",
             "uu_install", "udc", "ch", "sua_set"}

UpdFrame == UNCHANGED <<envVars, hVars, restVars>>

\* the same for the steps that set the locals of updateCluster
UpdOthersFrame ==
    UNCHANGED <<envVars, hVars, pingVars, backupVars, mailVars, closeVars, queryVars,
                jobVars, drainVars, viewVars>>

UpdLocalsFrame == UpdOthersFrame /\ UNCHANGED <<wgGiven, wgDones>>

\* update(wg) is called; the deferred functions are registered (547-556)
update(wg) ==
    /\ upc = "idle" /\ updCalls < MaxUpdates
    /\ upc' = "isSet"
    /\ updCalls' = updCalls + 1
    /\ lastUpdateAtCall' = lastUpdate
    /\ wgGiven' = wg /\ wgDones' = 0
    /\ UNCHANGED <<clusterVars, refreshNo, gate, ucTodo, ucCur, ucNode, wgCount,
                   usTasks, tm, panicked, trace, spawned, ucReported>>
    /\ UpdOthersFrame

\* the scheduler calls update with its wait group
UpdateCall == update(TRUE)

\* a caller that waits for nothing: update(nil)
UpdateCallNil == update(FALSE)

\* line 558: if !c.IsSet() { return nil }
UpdateGateIsSet ==
    /\ upc = "isSet" /\ mutexW = "none"
    /\ IF IsSet THEN upc' = "shouldUpdate" /\ gate' = gate
                ELSE upc' = "deferSpawn" /\ gate' = "closed"
    /\ UNCHANGED <<clusterVars, updCalls, refreshNo, ucTodo, ucCur, ucNode,
                   wgCount, usTasks, tm, panicked, trace, spawned, lastUpdateAtCall>>
    /\ UpdFrame

\* line 563: if !c.shouldUpdate() { return nil }
UpdateGateShouldUpdate ==
    /\ upc = "shouldUpdate" /\ mutexW = "none"
    /\ IF shouldUpdate
         THEN upc' = "uc_get" /\ gate' = "pass" /\ refreshNo' = refreshNo + 1
         ELSE upc' = "deferSpawn" /\ gate' = "notdue" /\ refreshNo' = refreshNo
    /\ UNCHANGED <<clusterVars, updCalls, ucTodo, ucCur, ucNode,
                   wgCount, usTasks, tm, panicked, trace, spawned, lastUpdateAtCall>>
    /\ UpdFrame

\* a panic in update's goroutine: the deferred Unlock of the running critical
\* section runs, then update's own deferred functions
Panic ==
    /\ panicked' = TRUE
    /\ upc' = "deferSpawn"
    /\ mutexW' = DeferredUnlock(mutexW)

\* any phase may panic (an invariant violated inside the phase)
UpdatePanic ==
    /\ upc \in PanicPcs
    /\ Panic
    /\ UNCHANGED <<client, nodes, nodeObjs, lastUpdate, updateInterval, userSet,
                   agg, jobs, users, privs, dcInfo>>
    /\ UNCHANGED <<updCalls, refreshNo, gate, ucTodo, ucCur, ucNode, wgCount,
                   usTasks, tm, trace, spawned, lastUpdateAtCall>>
    /\ UpdFrame

\* updateCluster, line 714: c.client.GetNodes(); a nil client is a nil dereference
UpdateClusterGetNodes ==
    /\ upc = "uc_get"
    /\ trace' = Append(trace, "updateCluster")
    /\ IF client
         THEN /\ \E S \in GetNodesChoices : ucTodo' = S /\ ucReported' = S
              /\ upc' = "uc_next"
              /\ UNCHANGED <<panicked, mutexW>>
         ELSE Panic /\ UNCHANGED <<ucTodo, ucReported>>
    /\ UNCHANGED <<client, nodes, nodeObjs, lastUpdate, updateInterval, userSet,
                   agg, jobs, users, privs, dcInfo>>
    /\ UNCHANGED <<updCalls, refreshNo, gate, ucCur, ucNode, wgCount,
                   usTasks, tm, spawned, lastUpdateAtCall>>
    /\ UpdLocalsFrame

\* lines 715-718: the next reported node, looked up by address, else by id
UpdateClusterFind ==
    /\ upc = "uc_next" /\ ucTodo # {} /\ mutexW = "none"
    /\ \E n \in ucTodo :
         /\ ucCur' = n
         /\ ucTodo' = ucTodo \ {n}
         /\ LET byAddr == FindNodeByAddress(HostString(n.host))
                found  == IF byAddr # {} THEN byAddr ELSE FindNodeById(n.name)
            IN IF found = {} THEN ucNode' = 0 /\ upc' = "uc_lock"
               ELSE (\E i \in found : ucNode' = i) /\ upc' = "uc_set"
    /\ UNCHANGED <<clusterVars, updCalls, refreshNo, gate, wgCount, usTasks, tm,
                   panicked, trace, spawned, lastUpdateAtCall>>
    /\ UpdFrame

\* lines 721-726: swap in the new underlying handle
UpdateClusterSetOrig ==
    /\ upc = "uc_set"
    /\ nodeObjs' = [nodeObjs EXCEPT ![ucNode].orig = ucCur]
    /\ upc' = "uc_next"
    /\ UNCHANGED <<client, nodes, lastUpdate, updateInterval, userSet,
                   agg, jobs, users, privs, dcInfo, mutexW>>
    /\ UNCHANGED <<updCalls, refreshNo, gate, ucTodo, ucCur, ucNode, wgCount,
                   usTasks, tm, panicked, trace, spawned, lastUpdateAtCall>>
    /\ UpdFrame

\* line 728: newNode(c, n), then registerNode takes the write lock
UpdateClusterRegisterLock ==
    /\ upc = "uc_lock" /\ mutexW = "none" /\ Len(nodeObjs) < MaxNodes
    /\ nodeObjs' = Append(nodeObjs, newNode(ucCur))
    /\ ucNode' = Len(nodeObjs) + 1
    /\ mutexW' = "update"
    /\ upc' = "uc_write"
    /\ UNCHANGED <<client, nodes, lastUpdate, updateInterval, userSet,
                   agg, jobs, users, privs, dcInfo>>
    /\ UNCHANGED <<updCalls, refreshNo, gate, ucTodo, ucCur, wgCount,
                   usTasks, tm, panicked, trace, spawned, lastUpdateAtCall>>
    /\ UpdFrame

\* registerNode, line 710: c.nodes[*h] = n, and the deferred Unlock
UpdateClusterRegister ==
    /\ upc = "uc_write"
    /\ nodes' = (ucCur.host :> ucNode) @@ nodes
    /\ mutexW' = DeferredUnlock(mutexW)
    /\ upc' = "uc_next"
    /\ UNCHANGED <<client, nodeObjs, lastUpdate, updateInterval, userSet,
                   agg, jobs, users, privs, dcInfo>>
    /\ UNCHANGED <<updCalls, refreshNo, gate, ucTodo, ucCur, ucNode, wgCount,
                   usTasks, tm, panicked, trace, spawned, lastUpdateAtCall>>
    /\ UpdFrame

\* were updateStats to take the write lock on entry
UpdateStatsAddLocked ==
    /\ upc = "uc_next" /\ ucTodo = {} /\ mutexW = "none"
    /\ trace' = Append(trace, "updateStats")
    /\ wgCount' = wgCount + Cardinality(DOMAIN nodes)
    /\ mutexW' = "update"
    /\ upc' = "us_spawn"
    /\ UNCHANGED <<client, nodes, nodeObjs, lastUpdate, updateInterval, userSet,
                   agg, jobs, users, privs, dcInfo>>
    /\ UNCHANGED <<updCalls, refreshNo, gate, ucTodo, ucCur, ucNode,
                   usTasks, tm, panicked, spawned, lastUpdateAtCall>>
    /\ ucReported' = {}
    /\ UpdLocalsFrame

\* updateCluster returns; updateStats, line 738: wg.Add(len(c.nodes))
UpdateStatsAdd ==
    /\ upc = "uc_next" /\ ucTodo = {}
    /\ trace' = Append(trace, "updateStats")
    /\ wgCount' = wgCount + Cardinality(DOMAIN nodes)
    /\ upc' = "us_spawn"
    /\ UNCHANGED <<clusterVars, updCalls, refreshNo, gate, ucTodo, ucCur, ucNode,
                   usTasks, tm, panicked, spawned, lastUpdateAtCall>>
    /\ ucReported' = {}
    /\ UpdLocalsFrame

\* lines 739-744: one goroutine per entry of c.nodes
UpdateStatsSpawn ==
    /\ upc = "us_spawn"
    /\ usTasks' = usTasks \cup Nodes
    /\ upc' = "us_wait"
    /\ UNCHANGED <<clusterVars, updCalls, refreshNo, gate, ucTodo, ucCur, ucNode,
                   wgCount, tm, panicked, trace, spawned, lastUpdateAtCall>>
    /\ UpdFrame

\* lines 740-743: a fan-out goroutine: node.update(), then wg.Done(); a
\* negative WaitGroup counter panics outside update's recover
NodeUpdate ==
    /\ \E i \in usTasks :
         /\ usTasks' = usTasks \ {i}
         /\ \E st \in NodePollResults(nodeObjs[i]) :
              nodeObjs' = [nodeObjs EXCEPT ![i].status = st]
    /\ wgCount' = wgCount - 1
    /\ crashed' = (wgCount - 1 < 0)
    /\ UNCHANGED <<client, nodes, lastUpdate, updateInterval, userSet,
                   agg, jobs, users, privs, dcInfo, mutexW>>
    /\ UNCHANGED <<upc, updCalls, refreshNo, gate, ucTodo, ucCur, ucNode,
                   tm, panicked, trace, spawned, lastUpdateAtCall>>
    /\ UNCHANGED <<now, hVars, restVars>>

\* line 745: wg.Wait(); lines 747-763: the new aggregates are computed from
\* the nodes; line 765: c.mutex.Lock()
UpdateStatsWaitLock ==
    /\ upc = "us_wait" /\ wgCount = 0 /\ mutexW = "none"
    /\ mutexW' = "update"
    /\ upc' = "us_install"
    /\ UNCHANGED <<client, nodes, nodeObjs, lastUpdate, updateInterval, userSet,
                   agg, jobs, users, privs, dcInfo>>
    /\ UNCHANGED <<updCalls, refreshNo, gate, ucTodo, ucCur, ucNode, wgCount,
                   usTasks, tm, panicked, trace, spawned, lastUpdateAtCall>>
    /\ UpdFrame

\* lines 767-772: the six aggregates are installed, then the deferred Unlock
UpdateStatsInstall ==
    /\ upc = "us_install"
    /\ agg' = [f \in AggFields |-> refreshNo]
    /\ mutexW' = DeferredUnlock(mutexW)
    /\ upc' = "uj"
    /\ UNCHANGED <<client, nodes, nodeObjs, lastUpdate, updateInterval, userSet,
                   jobs, users, privs, dcInfo>>
    /\ UNCHANGED <<updCalls, refreshNo, gate, ucTodo, ucCur, ucNode, wgCount,
                   usTasks, tm, panicked, trace, spawned, lastUpdateAtCall>>
    /\ UpdFrame

\* were updateUsers left out of the pipeline
afterJobsSkipUsers == "udc"
\* lines 570-571: c.updateJobs() returns, c.updateUsers() is next
afterJobs == "uu"

\* updateJobs, lines 1027-1043: c.Nodes(), then c.jobs.Store(res)
UpdateJobs ==
    /\ upc = "uj" /\ mutexW = "none"
    /\ trace' = Append(trace, "updateJobs")
    /\ jobs' = refreshNo
    /\ upc' = afterJobs
    /\ UNCHANGED <<client, nodes, nodeObjs, lastUpdate, updateInterval, userSet,
                   agg, users, privs, dcInfo, mutexW>>
    /\ UNCHANGED <<updCalls, refreshNo, gate, ucTodo, ucCur, ucNode, wgCount,
                   usTasks, tm, panicked, spawned, lastUpdateAtCall>>
    /\ UpdFrame

\* updateUsers, lines 624-645: the current user's privileges; a failed
\* QueryUser returns the error
UpdateUsersPrivileges ==
    /\ upc = "uu"
    /\ trace' = Append(trace, "updateUsers")
    /\ IF ~userSet
         THEN upc' = "uu_query" /\ UNCHANGED <<privs, panicked, mutexW>>
         ELSE IF ~client
         THEN Panic /\ UNCHANGED privs
         ELSE \/ upc' = "uu_query" /\ privs' = refreshNo
                    /\ UNCHANGED <<panicked, mutexW>>
              \/ upc' = "udc" /\ UNCHANGED <<privs, panicked, mutexW>>
    /\ UNCHANGED <<client, nodes, nodeObjs, lastUpdate, updateInterval, userSet,
                   agg, jobs, users, dcInfo>>
    /\ UNCHANGED <<updCalls, refreshNo, gate, ucTodo, ucCur, ucNode, wgCount,
                   usTasks, tm, spawned, lastUpdateAtCall>>
    /\ UpdFrame

\* lines 647-650: c.client.QueryUsers, c.client.QueryRoles (a nil client is a
\* nil dereference), then c.mutex.Lock()
UpdateUsersQueryLock ==
    /\ upc = "uu_query"
    /\ IF client THEN mutexW = "none" /\ mutexW' = "update"
                      /\ upc' = "uu_install" /\ UNCHANGED panicked
                 ELSE Panic
    /\ UNCHANGED <<client, nodes, nodeObjs, lastUpdate, updateInterval, userSet,
                   agg, jobs, users, privs, dcInfo>>
    /\ UNCHANGED <<updCalls, refreshNo, gate, ucTodo, ucCur, ucNode, wgCount,
                   usTasks, tm, trace, spawned, lastUpdateAtCall>>
    /\ UpdFrame

\* lines 653-654: c.users = users; c.roles = roles, then the deferred Unlock
UpdateUsersInstall ==
    /\ upc = "uu_install"
    /\ users' = refreshNo
    /\ mutexW' = DeferredUnlock(mutexW)
    /\ upc' = "udc"
    /\ UNCHANGED <<client, nodes, nodeObjs, lastUpdate, updateInterval, userSet,
                   agg, jobs, privs, dcInfo>>
    /\ UNCHANGED <<updCalls, refreshNo, gate, ucTodo, ucCur, ucNode, wgCount,
                   usTasks, tm, panicked, trace, spawned, lastUpdateAtCall>>
    /\ UpdFrame

\* updateDatacenterInfo, line 1080: c._datacenterInfo.SetStats(c.datacenterInfo())
UpdateDatacenterInfo ==
    /\ upc = "udc" /\ mutexW = "none"
    /\ trace' = Append(trace, "updateDatacenterInfo")
    /\ dcInfo' = refreshNo
    /\ upc' = "ch"
    /\ UNCHANGED <<client, nodes, nodeObjs, lastUpdate, updateInterval, userSet,
                   agg, jobs, users, privs, mutexW>>
    /\ UNCHANGED <<updCalls, refreshNo, gate, ucTodo, ucCur, ucNode, wgCount,
                   usTasks, tm, panicked, spawned, lastUpdateAtCall>>
    /\ UpdFrame

\* checkHealth, line 619, returns nil; line 576: time.Now() is evaluated and
\* setUpdatedAt takes the write lock
UpdateCheckHealth ==
    /\ upc = "ch" /\ mutexW = "none"
    /\ trace' = Append(trace, "checkHealth")
    /\ tm' = now
    /\ mutexW' = "update"
    /\ upc' = "sua_set"
    /\ UNCHANGED <<client, nodes, nodeObjs, lastUpdate, updateInterval, userSet,
                   agg, jobs, users, privs, dcInfo>>
    /\ UNCHANGED <<updCalls, refreshNo, gate, ucTodo, ucCur, ucNode,
                   wgCount, usTasks, panicked, spawned, lastUpdateAtCall>>
    /\ UpdFrame

\* line 542: c.lastUpdate = tm, then the deferred Unlock; update returns
UpdateSetUpdatedAt ==
    /\ upc = "sua_set"
    /\ trace' = Append(trace, "setUpdatedAt")
    /\ lastUpdate' = tm
    /\ mutexW' = DeferredUnlock(mutexW)
    /\ upc' = "deferSpawn"
    /\ UNCHANGED <<client, nodes, nodeObjs, updateInterval, userSet,
                   agg, jobs, users, privs, dcInfo>>
    /\ UNCHANGED <<updCalls, refreshNo, gate, ucTodo, ucCur, ucNode, wgCount,
                   usTasks, tm, panicked, spawned, lastUpdateAtCall>>
    /\ UpdFrame

\* line 556, deferred: go c.SendEmailNotifications()
UpdateDeferSpawn ==
    /\ upc = "deferSpawn"
    /\ trace' = Append(trace, "SendEmailNotifications")
    /\ spawned' = spawned + 1
    /\ upc' = "deferRecover"
    /\ UNCHANGED <<clusterVars, updCalls, refreshNo, gate, ucTodo, ucCur, ucNode,
                   wgCount, usTasks, tm, panicked, lastUpdateAtCall>>
    /\ UpdFrame

\* were update to wait for the goroutines it started
deferredSpawnJoins == spawned = 0
\* line 556 is a go statement: update goes on at once
deferredSpawnDone == TRUE

\* were wg.Done() called at the end of the body, not deferred
wgDoneAtEnd == wgGiven /\ ~panicked

\* lines 553-555: if wg != nil { defer wg.Done() }
wgDoneDeferred == wgGiven

\* the deferred functions registered before line 556 run: wg.Done() (554),
\* then recover() (547-551); update returns to its caller
UpdateRecover ==
    /\ upc = "deferRecover"
    /\ deferredSpawnDone
    /\ upc' = "returned"
    /\ wgDones' = IF wgDoneDeferred THEN wgDones + 1 ELSE wgDones
    /\ UNCHANGED <<clusterVars, updCalls, refreshNo, gate, ucTodo, ucCur, ucNode,
                   wgCount, usTasks, tm, panicked, trace, spawned, lastUpdateAtCall,
                   ucReported, wgGiven>>
    /\ UpdOthersFrame

\* the caller goes on; the locals of the call are gone
UpdateReturned ==
    /\ upc = "returned"
    /\ upc' = "idle"
    /\ gate' = "none" /\ panicked' = FALSE /\ trace' = << >>
    /\ ucTodo' = {} /\ ucCur' = NoNode /\ ucNode' = 0 /\ tm' = 0
    /\ lastUpdateAtCall' = 0
    /\ UNCHANGED <<clusterVars, updCalls, refreshNo, wgCount, usTasks, spawned>>
    /\ ucReported' = {} /\ wgGiven' = FALSE /\ wgDones' = 0
    /\ UpdOthersFrame

\* the closing operations leave the rest alone
CloseFrame ==
    /\ UNCHANGED <<nodes, nodeObjs, lastUpdate, updateInterval, userSet,
                   agg, jobs, users, privs, dcInfo, mutexW>>
    /\ UNCHANGED <<envVars, updVars, hVars, pingVars, backupVars, mailVars, queryVars,
                   jobVars, drainVars, viewVars, localVars>>

\* closeAndUnset, lines 108-116: the observer closes the client; with a nil
\* client the call changes nothing
closeAndUnset ==
    /\ mutexW = "none"
    /\ client
    /\ client' = FALSE
    /\ closes' = closes + 1
    /\ UNCHANGED closeFailed
    /\ CloseFrame

\* close, lines 509-515: c.client.Close() with no nil check (a nil client is
\* a nil dereference; the deferred Unlock runs), then c.client = nil
close ==
    /\ mutexW = "none"
    /\ IF client
         THEN closes' = closes + 1 /\ UNCHANGED closeFailed
         ELSE closeFailed' = TRUE /\ UNCHANGED closes
    /\ client' = FALSE
    /\ CloseFrame

\* Status, lines 223-231: "on" needs a client that is not nil (and connected)
Status == IF client THEN {"on", "off"} ELSE {"off"}

\* a second of wall-clock time passes
Tick ==
    /\ now < StartTime + MaxTime
    /\ now' = now + 1
    /\ UNCHANGED <<clusterVars, crashed, updVars, hVars, restVars>>

RefreshNext ==
    \/ UpdateCall \/ UpdateGateIsSet \/ UpdateGateShouldUpdate
    \/ UpdateClusterGetNodes \/ UpdateClusterFind
    \/ UpdateClusterSetOrig \/ UpdateClusterRegisterLock \/ UpdateClusterRegister
    \/ UpdateStatsAdd \/ UpdateStatsSpawn \/ NodeUpdate \/ UpdateStatsWaitLock
    \/ UpdateStatsInstall \/ UpdateJobs
    \/ UpdateUsersPrivileges \/ UpdateUsersQueryLock
    \/ UpdateUsersInstall \/ UpdateDatacenterInfo \/ UpdateCheckHealth
    \/ UpdateSetUpdatedAt \/ UpdateDeferSpawn
    \/ UpdateRecover \/ UpdateReturned

Next == ~crashed /\ (RefreshNext \/ UpdatePanic \/ closeAndUnset \/ Tick)

Spec == Init /\ [][Next]_vars

\* update called with or without a wait group, every step of it taken in the end
WaitGroupNext == RefreshNext \/ UpdatePanic \/ UpdateCallNil

WaitGroupSpec == Init /\ [][WaitGroupNext]_vars /\ WF_vars(RefreshNext)

----------------------------------------------------------------------------
(* Inactivity: setPermanent, updateLastestPing, shouldAutoRemove            *)

PingFrame == UNCHANGED <<clusterVars, envVars, updVars, hVars, backupVars, mailVars, opsVars>>

\* lines 101-106
setPermanent(v) ==
    /\ mutexW = "none"
    /\ permanent' = v
    /\ UNCHANGED <<lastPing, inactiveDur, sar>>
    /\ PingFrame

SetPermanent == \E v \in BOOLEAN : setPermanent(v)

\* lines 118-123: c.lastPing = time.Now()
updateLastestPing ==
    /\ mutexW = "none"
    /\ lastPing' = now
    /\ UNCHANGED <<permanent, inactiveDur, sar>>
    /\ PingFrame

\* were an age equal to the limit enough
shouldAutoRemoveAtLimit ==
    /\ ~permanent
    /\ inactiveDur > 0
    /\ Since(lastPing) >= inactiveDur

\* line 130
shouldAutoRemove ==
    /\ ~permanent
    /\ inactiveDur > 0
    /\ Since(lastPing) > inactiveDur

\* the removal scan of the observer asks the cluster
ShouldAutoRemoveCall ==
    /\ mutexW = "none"
    /\ sar' = [called |-> TRUE, permanent |-> permanent, dur |-> inactiveDur,
               age |-> now - lastPing, result |-> shouldAutoRemove]
    /\ UNCHANGED <<permanent, lastPing, inactiveDur>>
    /\ PingFrame

PingNext == SetPermanent \/ updateLastestPing \/ ShouldAutoRemoveCall \/ Tick

PingStart ==
    /\ ClusterAtRest /\ InitUpdate /\ InitHandler
    /\ InitPing /\ InitBackup /\ MailAtRest /\ OpsAtRest

PingSpec == PingStart /\ [][PingNext]_vars

----------------------------------------------------------------------------
(* An HTTP handler goroutine calling the cluster while it is refreshed      *)

HFrame == UNCHANGED <<envVars, updVars, restVars>>

\* the address strings a request may name
AddressStrings == { HostString(Host(a, p)) : a \in {"n1", "n2"}, p \in Ports }

\* a node made by AddNode: newNode(c, nil), then origHost = host (lines 154-155)
placeholderNode(host) == [newNode(NoNode) EXCEPT !.host = host]

\* AddNode, lines 135-138: resolveHost; an error (or no address) returns
AddNodeCall ==
    /\ hpc = "idle"
    /\ \E address \in Addresses, port \in Ports :
         LET list == resolveHost(address) IN
         /\ harg' = [op |-> "AddNode", address |-> address, port |-> port]
         /\ IF Len(list) = 0
              THEN /\ hpc' = "returned"
                   /\ hloc' = << >>
                   /\ hres' = [op |-> "AddNode", res |-> "resolve error"]
              ELSE /\ hpc' = "add_check"
                   /\ hloc' = [list |-> list, i |-> 1,
                               held |-> Host(list[1], port) \in DOMAIN nodes]
                   /\ hres' = hres
    /\ UNCHANGED clusterVars
    /\ HFrame

\* lines 140-145: c.nodes[*host] is read for every resolved address
AddNodeCheck ==
    /\ hpc = "add_check"
    /\ LET host == Host(hloc.list[hloc.i], harg.port) IN
       IF host \in DOMAIN nodes
         THEN /\ hpc' = "returned"
              /\ hloc' = hloc
              /\ hres' = [op |-> "AddNode", res |-> "Node already exists"]
         ELSE /\ hpc' = IF hloc.i = Len(hloc.list) THEN "add_insert" ELSE "add_check"
              /\ hloc' = [hloc EXCEPT !.i = hloc.i + 1]
              /\ hres' = hres
    /\ UNCHANGED <<clusterVars, harg>>
    /\ HFrame

\* were the host made of the last resolved address
addNodeHostLast(list, port) == Host(list[Len(list)], port)
\* line 147: host := as.NewHost(hostAddrList[0], port)
addNodeHost(list, port) == Host(list[1], port)

\* lines 147-161: AddSeeds on the client (a nil client is a nil dereference in
\* the handler), then the placeholder is stored under the write lock
AddNodeInsert ==
    /\ hpc = "add_insert"
    /\ LET host == addNodeHost(hloc.list, harg.port) IN
       IF ~client
         THEN /\ hres' = [op |-> "AddNode", res |-> "panic"]
              /\ UNCHANGED <<nodes, nodeObjs>>
         ELSE /\ mutexW = "none" /\ Len(nodeObjs) < MaxNodes
              /\ nodeObjs' = Append(nodeObjs, placeholderNode(host))
              /\ nodes' = (host :> (Len(nodeObjs) + 1)) @@ nodes
              /\ hres' = [op |-> "AddNode", res |-> "nil"]
    /\ hpc' = "returned"
    /\ UNCHANGED <<client, lastUpdate, updateInterval, userSet, agg, jobs, users,
                   privs, dcInfo, mutexW, harg, hloc>>
    /\ HFrame

\* RemoveNodeByAddress, lines 165-168: node := c.FindNodeByAddress(address)
RemoveNodeCall ==
    /\ hpc = "idle" /\ mutexW = "none"
    /\ \E address \in AddressStrings :
         LET found == FindNodeByAddress(address) IN
         /\ harg' = [op |-> "RemoveNodeByAddress", address |-> address]
         /\ IF found = {}
              THEN /\ hpc' = "returned"
                   /\ hloc' = << >>
                   /\ hres' = [op |-> "RemoveNodeByAddress", res |-> "not found"]
              ELSE /\ hpc' = "rm_status"
                   /\ \E i \in found : hloc' = [node |-> i]
                   /\ hres' = hres
    /\ UNCHANGED clusterVars
    /\ HFrame

\* lines 170-172: if node.Status() == nodeStatus.On { return error }
RemoveNodeStatus ==
    /\ hpc = "rm_status"
    /\ IF nodeObjs[hloc.node].status = "on"
         THEN /\ hpc' = "returned"
              /\ hres' = [op |-> "RemoveNodeByAddress", res |-> "is active"]
         ELSE /\ hpc' = "rm_remove"
              /\ hres' = hres
    /\ UNCHANGED <<clusterVars, harg, hloc>>
    /\ HFrame

\* the map lines 177-184 build: every entry but those of node
withoutNode(m, node) == [h \in {k \in DOMAIN m : m[k] # node} |-> m[h]]

\* lines 174-185: under the write lock c.nodes is replaced
RemoveNodeRemove ==
    /\ hpc = "rm_remove" /\ mutexW = "none"
    /\ nodes' = withoutNode(nodes, hloc.node)
    /\ hres' = [op |-> "RemoveNodeByAddress", res |-> "nil",
                statusAtRemoval |-> nodeObjs[hloc.node].status]
    /\ hpc' = "returned"
    /\ UNCHANGED <<client, nodeObjs, lastUpdate, updateInterval, userSet, agg,
                   jobs, users, privs, dcInfo, mutexW, harg, hloc>>
    /\ HFrame

\* the key of c.aggNodeCalcStats that Disk and Memory read
UsedKey(kind) == IF kind = "Disk" THEN "used-bytes-disk" ELSE "used-bytes-memory"
FreeKey(kind) == IF kind = "Disk" THEN "free-bytes-disk" ELSE "free-bytes-memory"
\* c.aggNodeCalcStats.TryInt(key, 0): the value for the key that the refresh
\* which built the map computed
TryInt(a, key) == [key |-> key, refresh |-> a.aggNodeCalcStats]

\* Disk line 235, Memory line 250: "used", read with no lock held
DiskCall ==
    /\ hpc = "idle"
    /\ \E kind \in {"Disk", "Memory"} :
         /\ harg' = [op |-> kind]
         /\ hloc' = [used |-> TryInt(agg, UsedKey(kind))]
    /\ hpc' = "disk_free"
    /\ UNCHANGED <<clusterVars, hres>>
    /\ HFrame

\* Disk line 236, Memory line 251: "free", read with no lock held
DiskFree ==
    /\ hpc = "disk_free"
    /\ hloc' = [used |-> hloc.used, free |-> TryInt(agg, FreeKey(harg.op))]
    /\ hpc' = "disk_details"
    /\ UNCHANGED <<clusterVars, harg, hres>>
    /\ HFrame

\* Disk lines 239-245, Memory lines 254-260: the details of c.Nodes()
DiskDetails ==
    /\ hpc = "disk_details" /\ mutexW = "none"
    /\ hres' = [op |-> harg.op, used |-> hloc.used, free |-> hloc.free,
                details |-> NodeList]
    /\ hpc' = "returned"
    /\ UNCHANGED <<clusterVars, harg, hloc>>
    /\ HFrame

\* NamespaceSetsInfo, lines 1006-1025: c.aggNsSetStats under the read lock
NamespaceSetsInfo ==
    /\ hpc = "idle" /\ mutexW = "none"
    /\ harg' = [op |-> "NamespaceSetsInfo"]
    /\ hres' = [op |-> "NamespaceSetsInfo", sets |-> agg.aggNsSetStats]
    /\ hpc' = "returned"
    /\ UNCHANGED <<clusterVars, hloc>>
    /\ HFrame

\* the response is written; the handler serves the next request
HandlerReturn ==
    /\ hpc = "returned"
    /\ hpc' = "idle"
    /\ harg' = << >> /\ hloc' = << >> /\ hres' = [op |-> "none"]
    /\ UNCHANGED clusterVars
    /\ HFrame

HandlerNext ==
    \/ AddNodeCall \/ AddNodeCheck \/ AddNodeInsert
    \/ RemoveNodeCall \/ RemoveNodeStatus \/ RemoveNodeRemove
    \/ DiskCall \/ DiskFree \/ DiskDetails \/ NamespaceSetsInfo
    \/ HandlerReturn

\* the handlers run against a cluster while update refreshes it
NodeInit ==
    /\ \E S \in GetNodesChoices : ClusterInit(S, MaxInterval, FALSE)
    /\ InitUpdate /\ InitHandler /\ RestAtRest

NodeNext == ~crashed /\ (RefreshNext \/ HandlerNext)

NodeSpec == NodeInit /\ [][NodeNext]_vars

----------------------------------------------------------------------------
(* RequestInfoAll, lines 659-705                                            *)

InfoCmds == {"build", "statistics"}

\* texts are kept as tuples of their parts; the empty string has none
EmptyString == << >>

\* what node.RequestInfo(1, cmd) can give for a node: an error, or a map
\* whose entry for cmd is empty (or missing), or a response
RequestInfoResults(i, cmd) ==
    { [Node |-> i, Res |-> EmptyString, Err |-> <<"timeout", i>>],
      [Node |-> i, Res |-> EmptyString, Err |-> << >>],
      [Node |-> i, Res |-> <<cmd, "response", i>>, Err |-> << >>] }

\* lines 666-667: nodes := c.Nodes(); the channel is made
RequestInfoAllCall ==
    /\ hpc = "idle" /\ mutexW = "none"
    /\ \E cmd \in InfoCmds : harg' = [op |-> "RequestInfoAll", cmd |-> cmd]
    /\ hloc' = [nodes |-> Nodes, pending |-> Nodes, ch |-> << >>]
    /\ hpc' = "ria_wait"
    /\ UNCHANGED <<clusterVars, hres>>
    /\ HFrame

\* lines 673-678: a goroutine sends its node's result to the channel
RequestInfoSend ==
    /\ hpc = "ria_wait"
    /\ \E i \in hloc.pending :
         \E r \in RequestInfoResults(i, harg.cmd) :
            hloc' = [hloc EXCEPT !.pending = @ \ {i}, !.ch = Append(@, r)]
    /\ UNCHANGED <<clusterVars, hpc, harg, hres>>
    /\ HFrame

\* were the entry of a failed node left empty
infoEntryNoErr(r) ==
    IF r.Err # << >> THEN EmptyString
    ELSE IF r.Res # EmptyString THEN r.Res ELSE EmptyString

\* lines 690-696: the entry of the result map for one message of the channel
infoEntry(r) ==
    IF r.Err # << >> THEN r.Err
    ELSE IF r.Res # EmptyString THEN r.Res ELSE EmptyString

RECURSIVE infoMap(_, _)
\* lines 687-697: the result map after the first k messages
infoMap(ch, k) ==
    IF k = 0 THEN << >>
    ELSE (ch[k].Node :> infoEntry(ch[k])) @@ infoMap(ch, k - 1)

RECURSIVE infoErrs(_, _)
\* lines 688, 691-692: errsStr after the first k messages
infoErrs(ch, k) ==
    IF k = 0 THEN << >>
    ELSE IF ch[k].Err # << >> THEN Append(infoErrs(ch, k - 1), ch[k].Err)
    ELSE infoErrs(ch, k - 1)

\* lines 684-704: wg.Wait(), close(ch), the map and the joined error
RequestInfoAllCollect ==
    /\ hpc = "ria_wait" /\ hloc.pending = {}
    /\ hres' = [op |-> "RequestInfoAll",
                res |-> infoMap(hloc.ch, Len(hloc.ch)),
                err |-> infoErrs(hloc.ch, Len(hloc.ch))]
    /\ hpc' = "returned"
    /\ UNCHANGED <<clusterVars, harg, hloc>>
    /\ HFrame

InfoNext ==
    \/ RequestInfoAllCall \/ RequestInfoSend \/ RequestInfoAllCollect
    \/ HandlerReturn

InfoSpec == NodeInit /\ [][InfoNext]_vars

----------------------------------------------------------------------------
(* Builds: BuildDetails, versionSupported, NodeCompatibility                *)

QueryFrame ==
    UNCHANGED <<clusterVars, envVars, updVars, hVars, pingVars, backupVars,
                mailVars, closeVars, jobVars, drainVars, viewVars, localVars>>

\* BuildDetails, and versionSupported through it, also touch lastPing
QueryPingFrame ==
    UNCHANGED <<clusterVars, envVars, updVars, hVars, backupVars,
                mailVars, closeVars, jobVars, drainVars, viewVars, localVars>>

\* were the ping to leave the time of the last ping alone
pingTimeKept == lastPing

\* line 122: time.Now()
pingTime == now

\* line 806: c.updateLastestPing() at the end of BuildDetails
buildDetailsPing ==
    /\ mutexW = "none"
    /\ lastPing' = pingTime
    /\ UNCHANGED <<permanent, inactiveDur, sar>>

\* Node.Address() of the i-th node of c.Nodes()
QueryAddress(i) == <<"node", i>>

RECURSIVE versionLessFrom(_, _, _)
\* version.Compare(a, b, "<"), from the k-th part on: the parts are compared
\* as numbers, left to right; of two versions equal so far the one with no
\* part left is the lesser
versionLessFrom(a, b, k) ==
    IF k > Len(b) THEN FALSE
    ELSE IF k > Len(a) THEN TRUE
    ELSE IF a[k] # b[k] THEN a[k] < b[k]
    ELSE versionLessFrom(a, b, k + 1)

\* were the parts compared from the second one on
versionLessNoMajor(a, b) == versionLessFrom(a, b, 2)

versionLess(a, b) == versionLessFrom(a, b, 1)

\* lines 793-801 (and 404-408): versionList, build -> the addresses of its nodes
versionList ==
    [b \in { qnodes[i].build : i \in DOMAIN qnodes } |->
        { QueryAddress(i) : i \in { j \in DOMAIN qnodes : qnodes[j].build = b } }]

\* line 782: the versions the loop of versionSupported returns an error for
offending(oldest) == { ver \in DOMAIN versionList : versionLess(ver, oldest) }

\* versionSupported, lines 777-788: the error of the first offending version
\* the range over the map meets, or nil
versionSupported(oldest) ==
    /\ \/ /\ offending(oldest) = {}
          /\ qres' = [op |-> "versionSupported", oldest |-> oldest, err |-> FALSE]
       \/ \E ver \in offending(oldest) :
            qres' = [op |-> "versionSupported", oldest |-> oldest, err |-> TRUE,
                     builds |-> {ver}, nodeList |-> versionList[ver]]
    /\ buildDetailsPing
    /\ UNCHANGED <<qnodes, alias>>
    /\ QueryPingFrame

\* BuildDetails, lines 790-808
BuildDetails ==
    /\ qres' = [op |-> "BuildDetails", version_list |-> versionList]
    /\ buildDetailsPing
    /\ UNCHANGED <<qnodes, alias>>
    /\ QueryPingFrame

VersionSupportedCall == \E oldest \in Builds \ {<< >>} : versionSupported(oldest)

\* were a cluster with one build the only homogeneous one
compatibilityStrict == IF Cardinality(DOMAIN versionList) = 1
                         THEN "homogeneous" ELSE "compatible"

\* lines 410-414: len(versionList) <= 1
compatibility == IF Cardinality(DOMAIN versionList) <= 1
                   THEN "homogeneous" ELSE "compatible"

\* NodeCompatibility, lines 403-415
NodeCompatibility ==
    /\ qres' = [op |-> "NodeCompatibility", res |-> compatibility]
    /\ UNCHANGED <<qnodes, alias>>
    /\ QueryFrame

\* a node is polled and reports another build
NodeReportsBuild ==
    /\ \E i \in DOMAIN qnodes, b \in Builds :
         qnodes' = [qnodes EXCEPT ![i].build = b]
    /\ qres' = [op |-> "none"]
    /\ UNCHANGED alias
    /\ QueryFrame

BuildStart ==
    /\ ClusterAtRest /\ InitUpdate /\ InitHandler
    /\ PingAtRest /\ InitBackup /\ MailAtRest /\ InitClose /\ InitJobs /\ InitDrain /\ LocalsAtRest /\ ViewAtRest /\ InitBuilds

BuildNext == VersionSupportedCall \/ BuildDetails \/ NodeCompatibility \/ NodeReportsBuild

BuildSpec == BuildStart /\ [][BuildNext]_vars

\* a cluster that is refreshed while time passes, pinged by BuildDetails and
\* asked by the removal scan
KeepAliveStart ==
    /\ InitCluster /\ InitUpdate /\ InitHandler
    /\ PingInit(MaxInterval) /\ InitBackup /\ MailAtRest /\ OpsAtRest

KeepAliveNext ==
    \/ RefreshNext \/ Tick
    \/ BuildDetails
    \/ ShouldAutoRemoveCall

KeepAliveSpec == KeepAliveStart /\ [][KeepAliveNext]_vars

----------------------------------------------------------------------------
(* Alias: Name, Alias, SetAlias                                             *)

AliasArgs == {"", "amc", "ops"}

\* were "null" taken for a cluster name
validNameNotEmpty(cName) == cName # ""

validName(cName) == cName # "" /\ cName # "null"

\* the results Name can return: the name of the first node, in the order
\* of c.Nodes(), that reports one; nil with no such node
Name ==
    IF \E i \in DOMAIN qnodes : validName(qnodes[i].cname)
    THEN { StringPtr(qnodes[i].cname) : i \in { j \in DOMAIN qnodes : validName(qnodes[j].cname) } }
    ELSE { NoAlias }

Alias ==
    /\ \/ /\ alias # NoAlias /\ alias[1] # ""
          /\ qres' = [op |-> "Alias", res |-> alias]
       \/ /\ ~(alias # NoAlias /\ alias[1] # "")
          /\ \E cName \in Name : qres' = [op |-> "Alias", res |-> cName]
    /\ UNCHANGED <<qnodes, alias>>
    /\ QueryFrame

SetAlias(a) ==
    /\ alias' = IF a = "" THEN NoAlias ELSE StringPtr(a)
    /\ qres' = [op |-> "SetAlias", arg |-> a]
    /\ UNCHANGED qnodes
    /\ QueryFrame

SetAliasCall == \E a \in AliasArgs : SetAlias(a)

\* a node is polled and reports another cluster name
NodeReportsName ==
    /\ \E i \in DOMAIN qnodes, n \in ClusterNames :
         qnodes' = [qnodes EXCEPT ![i].cname = n]
    /\ qres' = [op |-> "none"]
    /\ UNCHANGED alias
    /\ QueryFrame

AliasStart ==
    /\ ClusterAtRest /\ InitUpdate /\ InitHandler
    /\ PingAtRest /\ InitBackup /\ MailAtRest /\ InitClose /\ InitJobs /\ InitDrain /\ LocalsAtRest /\ ViewAtRest /\ InitNames

AliasNext == Alias \/ SetAliasCall \/ NodeReportsName

AliasSpec == AliasStart /\ [][AliasNext]_vars

----------------------------------------------------------------------------
(* Jobs: updateJobs and Jobs                                                *)

JobsFrame ==
    UNCHANGED <<client, nodes, nodeObjs, lastUpdate, updateInterval, userSet, agg,
                users, privs, dcInfo, mutexW, envVars, updVars, hVars, pingVars,
                backupVars, mailVars, closeVars, queryVars, drainVars, viewVars,
                localVars>>

\* the jobs of node i, k of them, each with its "node" entry
NodeJobs(i, k) == [j \in 1..k |-> <<i, j>>]

\* were res stored after every node
jobsAfterVisitStored(res) == res

\* the loop appends to the local res only
jobsAfterVisit(res) == jlist

\* updateJobs, line 1028: res := []common.Stats{}, and c.Nodes()
UpdateJobsCall ==
    /\ jpc = "idle"
    /\ jobs < MaxUpdates
    /\ jpc' = "collect"
    /\ jtodo' \in SUBSET (1..MaxNodes)
    /\ jlocal' = << >>
    /\ jread' = [op |-> "none"]
    /\ UNCHANGED <<jobs, jlist, jlast>>
    /\ JobsFrame

\* lines 1029-1040: the jobs of one node are appended
UpdateJobsVisit ==
    /\ jpc = "collect"
    /\ \E i \in jtodo, k \in 0..MaxJobs :
         /\ jlocal' = jlocal \o NodeJobs(i, k)
         /\ jtodo' = jtodo \ {i}
         /\ jlist' = jobsAfterVisit(jlocal \o NodeJobs(i, k))
    /\ jread' = [op |-> "none"]
    /\ UNCHANGED <<jobs, jpc, jlast>>
    /\ JobsFrame

\* line 1042: c.jobs.Store(res), and updateJobs returns
UpdateJobsStore ==
    /\ jpc = "collect"
    /\ jtodo = {}
    /\ jlist' = jlocal
    /\ jobs' = jobs + 1
    /\ jlast' = jlocal
    /\ jpc' = "idle"
    /\ jread' = [op |-> "none"]
    /\ UNCHANGED <<jtodo, jlocal>>
    /\ JobsFrame

\* Jobs, lines 1045-1052: c.jobs.Load(), an empty slice for nil
Jobs ==
    /\ jread' = [op |-> "Jobs", res |-> IF jobs = 0 THEN << >> ELSE jlist]
    /\ UNCHANGED <<jobs, jpc, jtodo, jlocal, jlist, jlast>>
    /\ JobsFrame

JobsStart ==
    /\ ClusterAtRest /\ InitUpdate /\ InitHandler
    /\ PingAtRest /\ InitBackup /\ MailAtRest /\ OpsAtRest

JobsNext == UpdateJobsCall \/ UpdateJobsVisit \/ UpdateJobsStore \/ Jobs

JobsSpec == JobsStart /\ [][JobsNext]_vars

----------------------------------------------------------------------------
(* Closing: close and closeAndUnset, called while update runs               *)

CloseStart == ClusterAtRest /\ InitUpdate /\ InitHandler /\ RestAtRest

CloseNext == ~crashed /\ (RefreshNext \/ UpdatePanic \/ closeAndUnset \/ close)

CloseSpec == CloseStart /\ [][CloseNext]_vars

----------------------------------------------------------------------------
(* Backup and Restore, lines 1227-1321: the two functions have one shape,   *)
(* Backup on c.activeBackup and Restore on c.activeRestore                  *)

BackupFrame == UNCHANGED <<clusterVars, envVars, updVars, hVars, pingVars, mailVars, opsVars>>

\* were the status test of the check negated
activeNotInProgress(h) == h # 0 /\ handles[h].status # "in-progress"
\* lines 1238 and 1287: c.activeBackup != nil &&
\* c.activeBackup.Status == common.BackupStatusInProgress
activeInProgress(h) == h # 0 /\ handles[h].status = "in-progress"

\* CurrentBackup, CurrentRestore: lines 1270-1275, 1323-1329
CurrentBackup == active["backup"]
CurrentRestore == active["restore"]

\* a goroutine enters Backup or Restore: the check of lines 1238, 1287
BackupCheck(c) ==
    /\ bpc[c] = "idle"
    /\ \E k \in Kinds :
         /\ bkind' = [bkind EXCEPT ![c] = k]
         /\ IF activeInProgress(active[k])
              THEN /\ bpc' = [bpc EXCEPT ![c] = "returned"]
                   /\ bres' = [bres EXCEPT ![c] = "rejected"]
              ELSE /\ bpc' = [bpc EXCEPT ![c] = "install"]
                   /\ bres' = [bres EXCEPT ![c] = "none"]
    /\ UNCHANGED <<active, handles>>
    /\ BackupFrame

\* lines 1242-1259, 1291-1312: the new handle, in progress, is stored in the field
BackupInstall(c) ==
    /\ bpc[c] = "install" /\ mutexW = "none" /\ Len(handles) < MaxHandles
    /\ handles' = Append(handles, [kind |-> bkind[c], status |-> "in-progress",
                                   saved |-> FALSE, executions |-> 0])
    /\ active' = [active EXCEPT ![bkind[c]] = Len(handles) + 1]
    /\ bpc' = [bpc EXCEPT ![c] = "save"]
    /\ UNCHANGED <<bkind, bres>>
    /\ BackupFrame

\* lines 1261-1264, 1314-1317: c.activeBackup.Save() on the field as it is now
\* (nil: a nil dereference); on an error the field is set to nil
BackupSave(c) ==
    /\ bpc[c] = "save"
    /\ LET h == active[bkind[c]] IN
       IF h = 0
         THEN /\ bpc' = [bpc EXCEPT ![c] = "returned"]
              /\ bres' = [bres EXCEPT ![c] = "panic"]
              /\ UNCHANGED <<active, handles>>
         ELSE \/ /\ handles' = [handles EXCEPT ![h].saved = TRUE]
                 /\ bpc' = [bpc EXCEPT ![c] = "execute"]
                 /\ UNCHANGED <<active, bres>>
              \/ /\ active' = [active EXCEPT ![bkind[c]] = 0]
                 /\ bpc' = [bpc EXCEPT ![c] = "returned"]
                 /\ bres' = [bres EXCEPT ![c] = "save error"]
                 /\ UNCHANGED handles
    /\ UNCHANGED bkind
    /\ BackupFrame

\* lines 1267, 1320: return c.activeBackup, c.activeBackup.Execute()
BackupExecute(c) ==
    /\ bpc[c] = "execute"
    /\ LET h == active[bkind[c]] IN
       IF h = 0
         THEN /\ bres' = [bres EXCEPT ![c] = "panic"]
              /\ UNCHANGED handles
         ELSE /\ handles' = [handles EXCEPT ![h].executions = @ + 1]
              /\ bres' = [bres EXCEPT ![c] = "started"]
    /\ bpc' = [bpc EXCEPT ![c] = "returned"]
    /\ UNCHANGED <<active, bkind>>
    /\ BackupFrame

\* the caller goes on
BackupReturn(c) ==
    /\ bpc[c] = "returned"
    /\ bpc' = [bpc EXCEPT ![c] = "idle"]
    /\ bres' = [bres EXCEPT ![c] = "none"]
    /\ UNCHANGED <<active, handles, bkind>>
    /\ BackupFrame

\* the background execution of a handle ends
BackupFinish ==
    /\ \E h \in 1..Len(handles) :
         /\ handles[h].status = "in-progress" /\ handles[h].executions > 0
         /\ \E st \in {"success", "failure"} :
              handles' = [handles EXCEPT ![h].status = st]
    /\ UNCHANGED <<active, bpc, bkind, bres>>
    /\ BackupFrame

BackupNext ==
    \/ \E c \in Callers : BackupCheck(c)
    \/ \E c \in Callers : BackupInstall(c)
    \/ \E c \in Callers : BackupSave(c)
    \/ \E c \in Callers : BackupExecute(c)
    \/ \E c \in Callers : BackupReturn(c)
    \/ BackupFinish

BackupStart == ClusterAtRest /\ InitUpdate /\ InitHandler /\ RestAtRest

BackupSpec == BackupStart /\ [][BackupNext]_vars

----------------------------------------------------------------------------
(* Alert mail: SendEmailNotifications, lines 581-616                        *)

MailFrame == UNCHANGED <<clusterVars, envVars, updVars, hVars, pingVars, backupVars, opsVars>>

\* an alert is put into the cluster's bucket
RaiseAlert ==
    /\ alertQueue + Len(mailTasks) < MaxAlerts
    /\ alertQueue' = alertQueue + 1
    /\ UNCHANGED <<mailerHost, mailTasks>>
    /\ MailFrame

\* the goroutine of line 604 as it starts: i = 0, nothing sent
newMailTask == [pc |-> "send", i |-> 0, attempts |-> 0, sent |-> 0, afterSent |-> 0]

RECURSIVE mailTasksFor(_)
mailTasksFor(n) == IF n = 0 THEN << >> ELSE <<newMailTask>> \o mailTasksFor(n - 1)

\* lines 582-616: drain the new alerts; without a mailer host that is all,
\* with one a goroutine per drained alert
drainAndMail ==
    /\ alertQueue' = 0
    /\ mailTasks' = IF mailerHost THEN mailTasks \o mailTasksFor(alertQueue)
                                  ELSE mailTasks
    /\ UNCHANGED mailerHost

SendEmailNotifications ==
    /\ drainAndMail
    /\ MailFrame

\* were the loop to run one round more
loopCondOneMore(i) == i <= MaxAttempts
\* line 605: the loop condition
loopCond(i) == i < MaxAttempts

\* lines 605-609: the loop condition, then SendMail; nil breaks the loop
SendMail(t) ==
    /\ mailTasks[t].pc = "send"
    /\ IF loopCond(mailTasks[t].i)
         THEN \E err \in {"nil", "error"} :
                mailTasks' = [mailTasks EXCEPT
                    ![t].attempts = @ + 1,
                    ![t].afterSent = IF mailTasks[t].sent > 0 THEN @ + 1 ELSE @,
                    ![t].sent = IF err = "nil" THEN @ + 1 ELSE @,
                    ![t].pc = IF err = "nil" THEN "done" ELSE "sleep"]
         ELSE mailTasks' = [mailTasks EXCEPT ![t].pc = "done"]
    /\ UNCHANGED <<alertQueue, mailerHost>>
    /\ MailFrame

\* lines 611-612 and the i++ of line 605: log, sleep five seconds, next round
MailSleep(t) ==
    /\ mailTasks[t].pc = "sleep"
    /\ mailTasks' = [mailTasks EXCEPT ![t].i = @ + 1, ![t].pc = "send"]
    /\ UNCHANGED <<alertQueue, mailerHost>>
    /\ MailFrame

MailTaskStep(t) == SendMail(t) \/ MailSleep(t)

MailNext ==
    \/ RaiseAlert
    \/ SendEmailNotifications
    \/ \E t \in DOMAIN mailTasks : SendMail(t)
    \/ \E t \in DOMAIN mailTasks : MailSleep(t)

MailStart ==
    /\ ClusterAtRest /\ InitUpdate /\ InitHandler
    /\ PingAtRest /\ InitBackup /\ InitMail /\ OpsAtRest

\* a started goroutine is scheduled again and again; SendMail returns
MailFairSpec ==
    /\ MailStart
    /\ [][MailNext]_vars
    /\ \A t \in 1..MaxAlerts : WF_vars(t \in DOMAIN mailTasks /\ MailTaskStep(t))

----------------------------------------------------------------------------
(* Alert mail started by update: line 556 with lines 581-616                *)

\* a goroutine started at line 556 runs SendEmailNotifications
UpdateSendEmailNotifications ==
    /\ spawned > 0
    /\ spawned' = spawned - 1
    /\ drainAndMail
    /\ UNCHANGED <<upc, updCalls, refreshNo, gate, ucTodo, ucCur, ucNode, wgCount,
                   usTasks, tm, panicked, trace, lastUpdateAtCall>>
    /\ UNCHANGED <<clusterVars, envVars, hVars, pingVars, backupVars, opsVars>>

NotifyStart ==
    /\ InitCluster /\ InitUpdate /\ InitHandler
    /\ PingAtRest /\ InitBackup /\ InitMail /\ OpsAtRest

\* an alert is raised while no other one is on its way: one delivery is
\* enough to overlap an update
RaiseOneAlert ==
    /\ alertQueue = 0
    /\ mailTasks = << >>
    /\ RaiseAlert

NotifyNext ==
    \/ RefreshNext
    \/ RaiseOneAlert
    \/ UpdateSendEmailNotifications
    \/ \E t \in DOMAIN mailTasks : SendMail(t)
    \/ \E t \in DOMAIN mailTasks : MailSleep(t)

NotifySpec == NotifyStart /\ [][NotifyNext]_vars

----------------------------------------------------------------------------
(* The alert bucket under the goroutines of line 556: DrainNewAlerts        *)

DrainFrame ==
    UNCHANGED <<clusterVars, envVars, updVars, hVars, pingVars, backupVars,
                closeVars, queryVars, jobVars, viewVars, localVars, mailerHost,
                mailTasks>>

\* an alert is appended and gets the next id
AlertAppend ==
    /\ abNext < MaxAlerts
    /\ abNext' = abNext + 1
    /\ abSince' = abSince + 1
    /\ alertQueue' = alertQueue + 1
    /\ UNCHANGED <<abCursor, drainers, handed>>
    /\ DrainFrame

\* line 556, once per call of update: go c.SendEmailNotifications()
GoSendEmailNotifications ==
    /\ Len(drainers) < MaxUpdates
    /\ drainers' = Append(drainers, [pc |-> "drain", from |-> 0, to |-> 0])
    /\ UNCHANGED <<abNext, abCursor, abSince, handed, alertQueue>>
    /\ DrainFrame

\* DrainNewAlerts, line 582: the alerts with an id above the cursor
DrainRead(d) ==
    /\ drainers[d].pc = "drain"
    /\ drainers' = [drainers EXCEPT ![d] =
                       [pc |-> "advance", from |-> abCursor, to |-> abNext]]
    /\ abSince' = 0
    /\ UNCHANGED <<abNext, abCursor, handed, alertQueue>>
    /\ DrainFrame

\* DrainNewAlerts: the cursor advances, and the call returns. The bucket is
\* safe for one drainer; nothing keeps a second one from running in between
DrainAdvance(d) ==
    /\ drainers[d].pc = "advance"
    /\ abCursor' = drainers[d].to
    /\ alertQueue' = abNext - drainers[d].to
    /\ drainers' = [drainers EXCEPT ![d].pc = "mail"]
    /\ UNCHANGED <<abNext, abSince, handed>>
    /\ DrainFrame

\* lines 585-614: with a mailer host, one delivery goroutine per drained alert
DrainDeliver(d) ==
    /\ drainers[d].pc = "mail"
    /\ handed' = [id \in 1..MaxAlerts |->
                     IF mailerHost /\ drainers[d].from < id /\ id <= drainers[d].to
                       THEN handed[id] + 1 ELSE handed[id]]
    /\ drainers' = [drainers EXCEPT ![d].pc = "done"]
    /\ UNCHANGED <<abNext, abCursor, abSince, alertQueue>>
    /\ DrainFrame

DrainStart ==
    /\ ClusterAtRest /\ InitUpdate /\ InitHandler
    /\ PingAtRest /\ InitBackup /\ InitMail /\ OpsAtRest

DrainNext ==
    \/ AlertAppend
    \/ GoSendEmailNotifications
    \/ \E d \in DOMAIN drainers : DrainRead(d)
    \/ \E d \in DOMAIN drainers : DrainAdvance(d)
    \/ \E d \in DOMAIN drainers : DrainDeliver(d)

DrainSpec == DrainStart /\ [][DrainNext]_vars

----------------------------------------------------------------------------
(* The password: UpdatePassword, lines 272-292                              *)

ViewFrame ==
    UNCHANGED <<clusterVars, envVars, updVars, hVars, pingVars, backupVars, mailVars,
                closeVars, queryVars, jobVars, drainVars, localVars>>

\* were the stored password not looked at
passwordDiffersNever(currentPass) == FALSE

\* line 277
passwordDiffers(currentPass) == cpassword # NoAlias /\ currentPass # cpassword[1]

\* line 281
userDiffers(user) == cuser # NoAlias /\ user # cuser[1]

\* what the call returns before it reaches the server, "" when it goes on
updatePasswordRejects(user, currentPass, newPass) ==
    IF currentPass = newPass THEN "New password cannot be same as current password"
    ELSE IF passwordDiffers(currentPass) THEN "Invalid current password"
    ELSE IF userDiffers(user) THEN "Invalid current user"
    ELSE ""

PasswordFrame == ViewFrame /\ UNCHANGED <<dcVars, nsVars, lockVars, debugVars>>

UpdatePassword(user, currentPass, newPass) ==
    LET rejected == updatePasswordRejects(user, currentPass, newPass)
        call == [op |-> "UpdatePassword", user |-> user, currentPass |-> currentPass,
                 newPass |-> newPass, userWas |-> cuser, passwordWas |-> cpassword,
                 serverWas |-> serverPw]
    IN  /\ \/ /\ rejected # ""
              /\ pwres' = call @@ [err |-> rejected, called |-> FALSE]
              /\ UNCHANGED <<cpassword, serverPw>>
           \/ /\ rejected = ""
              \* line 285: ChangePassword succeeds
              /\ serverPw' = [serverPw EXCEPT ![user] = newPass]
              /\ cpassword' = StringPtr(newPass)
              /\ pwres' = call @@ [err |-> "nil", called |-> TRUE]
           \/ /\ rejected = ""
              \* line 285: ChangePassword fails
              /\ pwres' = call @@ [err |-> "ChangePassword failed", called |-> TRUE]
              /\ UNCHANGED <<cpassword, serverPw>>
        /\ UNCHANGED cuser
        /\ PasswordFrame

UpdatePasswordCall ==
    \E user \in UserNames, currentPass, newPass \in Passwords :
        UpdatePassword(user, currentPass, newPass)

PasswordStart ==
    /\ ClusterAtRest /\ InitUpdate /\ InitHandler
    /\ PingAtRest /\ InitBackup /\ MailAtRest
    /\ InitClose /\ QueryAtRest /\ InitJobs /\ InitDrain /\ LocalsAtRest
    /\ InitPassword /\ DatacenterAtRest /\ NamespaceAtRest /\ LockAtRest /\ DebugAtRest

PasswordNext == UpdatePasswordCall

PasswordSpec == PasswordStart /\ [][PasswordNext]_vars

----------------------------------------------------------------------------
(* The datacenter view: datacenterInfo and DiscoverDatacenter               *)

DatacenterFrame == ViewFrame /\ UNCHANGED <<pwVars, nsVars, lockVars, debugVars>>

\* were every element kept
StrUniqKeepsAll(list) == list

\* common.StrUniq: the list without the repeated elements
RECURSIVE StrUniq(_)
StrUniq(list) ==
    IF list = << >> THEN << >>
    ELSE LET front == StrUniq(SubSeq(list, 1, Len(list) - 1))
             last == list[Len(list)]
         IN  IF \E i \in DOMAIN front : front[i] = last THEN front
             ELSE Append(front, last)

\* common.SplitHostPort returns an error
SplitHostPortFails(nodeAddr) == nodeAddr = "c"

\* DiscoverDatacenter, lines 1174-1211, from the k-th address of dc on: nil
\* on an address that does not split, the synthetic entry of the first
\* address no cluster monitors, nil after the last
RECURSIVE DiscoverFrom(_, _)
DiscoverFrom(dc, k) ==
    IF k > Len(dc.Nodes) THEN [NoRemote EXCEPT !.present = TRUE, !.isNil = TRUE]
    ELSE IF SplitHostPortFails(dc.Nodes[k])
           THEN [NoRemote EXCEPT !.present = TRUE, !.isNil = TRUE]
    ELSE IF monitoredBy[dc.Nodes[k]] = ""
           THEN [present |-> TRUE, isNil |-> FALSE, seednode |-> dc.Nodes[k],
                 node |-> dc.Nodes[k], status |-> "off"]
    ELSE DiscoverFrom(dc, k + 1)

DiscoverDatacenter(dc) == DiscoverFrom(dc, 1)

\* lines 1099-1111: xdrInfo after one address of dc
xdrAfter(xdr, dc, nodeAddr) ==
    IF monitoredBy[nodeAddr] = ""
      THEN [xdr EXCEPT ![nodeAddr] = <<dc.namespaces>>]
      ELSE LET id == monitoredBy[nodeAddr]
               snIfc == IF xdr[id] = << >> THEN << >> ELSE xdr[id][1]
           IN  [xdr EXCEPT ![id] = <<StrUniq(snIfc \o dc.namespaces)>>]

\* lines 1097-1112: the loop over dcStats["Nodes"], from the k-th address on
RECURSIVE xdrAfterNodes(_, _, _)
xdrAfterNodes(xdr, dc, k) ==
    IF k > Len(dc.Nodes) THEN xdr
    ELSE xdrAfterNodes(xdrAfter(xdr, dc, dc.Nodes[k]), dc, k + 1)

\* datacenterInfo, lines 1087-1091
DatacenterInfoCall ==
    /\ dcpc = "idle"
    /\ dcpc' = "loop"
    /\ dcTodo' = DOMAIN dcEntries
    /\ xdrInfo' = [k \in XdrKeys |-> << >>]
    /\ remoteNodeStats' = [a \in RemoteAddrs |-> NoRemote]
    /\ UNCHANGED <<dcEntries, monitoredBy>>
    /\ DatacenterFrame

\* lines 1092-1113: one datacenter of one node, in the order of the maps
DatacenterVisit ==
    /\ dcpc = "loop"
    /\ \E e \in dcTodo :
         LET dc == dcEntries[e]
         IN  /\ remoteNodeStats' =
                    [a \in RemoteAddrs |->
                        IF \E k \in DOMAIN dc.Nodes : dc.Nodes[k] = a
                          THEN DiscoverDatacenter(dc) ELSE remoteNodeStats[a]]
             /\ xdrInfo' = xdrAfterNodes(xdrInfo, dc, 1)
             /\ dcTodo' = dcTodo \ {e}
    /\ UNCHANGED <<dcEntries, monitoredBy, dcpc>>
    /\ DatacenterFrame

\* lines 1151-1171: the view is returned
DatacenterInfoReturn ==
    /\ dcpc = "loop"
    /\ dcTodo = {}
    /\ dcpc' = "returned"
    /\ UNCHANGED <<dcEntries, monitoredBy, dcTodo, xdrInfo, remoteNodeStats>>
    /\ DatacenterFrame

DatacenterStart ==
    /\ ClusterAtRest /\ InitUpdate /\ InitHandler
    /\ PingAtRest /\ InitBackup /\ MailAtRest
    /\ InitClose /\ QueryAtRest /\ InitJobs /\ InitDrain /\ LocalsAtRest
    /\ PasswordAtRest /\ InitDatacenter /\ NamespaceAtRest /\ LockAtRest /\ DebugAtRest

DatacenterNext == DatacenterInfoCall \/ DatacenterVisit \/ DatacenterInfoReturn

DatacenterSpec == DatacenterStart /\ [][DatacenterNext]_vars

----------------------------------------------------------------------------
(* The namespace view: NamespaceInfo, lines 891-937, for one namespace      *)

NamespaceFrame == ViewFrame /\ UNCHANGED <<pwVars, dcVars, lockVars, debugVars>>

\* lines 910-921: the record after a node that has the namespace
leastAfter(lpct, node, availPct) ==
    IF availPct >= 0
      THEN IF lpct.value = -1 \/ availPct < lpct.value
             THEN [node |-> node, value |-> availPct]
             ELSE lpct
      ELSE NilLeast

\* lines 892-893
NamespaceInfoCall ==
    /\ nspc = "idle"
    /\ nspc' = "loop"
    /\ nsTodo' = DOMAIN nsAvail
    /\ nsOrder' = << >>
    /\ nsLeast' = NilLeast
    /\ UNCHANGED nsAvail
    /\ NamespaceFrame

\* lines 894-929: one node, in the order of c.Nodes(); a node without the
\* namespace is passed over (line 897)
NamespaceVisit ==
    /\ nspc = "loop"
    /\ \E node \in nsTodo :
         /\ nsTodo' = nsTodo \ {node}
         /\ nsOrder' = Append(nsOrder, node)
         /\ nsLeast' = IF nsAvail[node].has
                          THEN leastAfter(nsLeast, node, nsAvail[node].pct)
                          ELSE nsLeast
    /\ UNCHANGED <<nsAvail, nspc>>
    /\ NamespaceFrame

\* lines 932-936
NamespaceInfoReturn ==
    /\ nspc = "loop"
    /\ nsTodo = {}
    /\ nspc' = "returned"
    /\ UNCHANGED <<nsAvail, nsTodo, nsOrder, nsLeast>>
    /\ NamespaceFrame

NamespaceStart ==
    /\ ClusterAtRest /\ InitUpdate /\ InitHandler
    /\ PingAtRest /\ InitBackup /\ MailAtRest
    /\ InitClose /\ QueryAtRest /\ InitJobs /\ InitDrain /\ LocalsAtRest
    /\ PasswordAtRest /\ DatacenterAtRest /\ InitNamespace /\ LockAtRest /\ DebugAtRest

NamespaceNext == NamespaceInfoCall \/ NamespaceVisit \/ NamespaceInfoReturn

NamespaceSpec == NamespaceStart /\ [][NamespaceNext]_vars

----------------------------------------------------------------------------
(* c.mutex: the read and write locks of Alias, Name, Nodes, SetAlias,       *)
(* registerNode and the aggregate swap-in                                   *)

LockFrame ==
    UNCHANGED <<clusterVars, envVars, updVars, hVars, pingVars, backupVars, mailVars,
                closeVars, jobVars, drainVars, localVars, pwVars, dcVars, nsVars,
                debugVars, qnodes, qres>>

\* RWMutex.RLock returns: no writer holds the lock and none is blocked in Lock
RLockable == rwWriter = "none" /\ rwWaiting = {}

\* RWMutex.Lock returns: no writer and no reader holds the lock
Lockable == rwWriter = "none" /\ \A g \in LockOps : rwReaders[g] = 0

RLock(g) == RLockable /\ rwReaders' = [rwReaders EXCEPT ![g] = @ + 1]

RUnlock(g) == rwReaders' = [rwReaders EXCEPT ![g] = @ - 1]

\* a writer calls Lock and blocks
LockCall(g) ==
    /\ lpc[g] = "idle"
    /\ rwWaiting' = rwWaiting \cup {g}
    /\ lpc' = [lpc EXCEPT ![g] = "lock"]
    /\ UNCHANGED <<rwReaders, rwWriter, alias>>
    /\ LockFrame

\* its Lock returns
LockReturns(g) ==
    /\ lpc[g] = "lock" /\ Lockable
    /\ rwWriter' = g
    /\ rwWaiting' = rwWaiting \ {g}
    /\ lpc' = [lpc EXCEPT ![g] = "locked"]
    /\ UNCHANGED <<rwReaders, alias>>
    /\ LockFrame

\* its deferred Unlock
Unlock(g) ==
    /\ lpc[g] = "locked"
    /\ rwWriter' = "none"
    /\ lpc' = [lpc EXCEPT ![g] = "idle"]
    /\ UNCHANGED <<rwReaders, rwWaiting>>
    /\ LockFrame

\* Alias, lines 453-454
AliasRLock ==
    /\ lpc["Alias"] = "idle"
    /\ RLock("Alias")
    /\ lpc' = [lpc EXCEPT !["Alias"] = "alias"]
    /\ UNCHANGED <<rwWriter, rwWaiting, alias>>
    /\ LockFrame

\* lines 456-461: the alias is returned, or Name is called with the lock held
AliasCheck ==
    /\ lpc["Alias"] = "alias"
    /\ lpc' = [lpc EXCEPT !["Alias"] =
                 IF alias # NoAlias /\ alias[1] # "" THEN "return" ELSE "Name"]
    /\ UNCHANGED <<rwReaders, rwWriter, rwWaiting, alias>>
    /\ LockFrame

\* Name calls Nodes (443), which takes the read lock (350)
NameNodesRLock ==
    /\ lpc["Alias"] = "Name"
    /\ RLock("Alias")
    /\ lpc' = [lpc EXCEPT !["Alias"] = "Nodes"]
    /\ UNCHANGED <<rwWriter, rwWaiting, alias>>
    /\ LockFrame

\* Nodes returns (351, 357)
NameNodesRUnlock ==
    /\ lpc["Alias"] = "Nodes"
    /\ RUnlock("Alias")
    /\ lpc' = [lpc EXCEPT !["Alias"] = "return"]
    /\ UNCHANGED <<rwWriter, rwWaiting, alias>>
    /\ LockFrame

\* Alias returns: its deferred RUnlock (454)
AliasRUnlock ==
    /\ lpc["Alias"] = "return"
    /\ RUnlock("Alias")
    /\ lpc' = [lpc EXCEPT !["Alias"] = "idle"]
    /\ UNCHANGED <<rwWriter, rwWaiting, alias>>
    /\ LockFrame

\* SetAlias, lines 468-473
SetAliasLock == LockCall("SetAlias")

SetAliasLocked == LockReturns("SetAlias")

SetAliasUnlock ==
    /\ \E a \in AliasArgs : alias' = IF a = "" THEN NoAlias ELSE StringPtr(a)
    /\ Unlock("SetAlias")

\* registerNode, lines 707-711
RegisterNodeLock == LockCall("registerNode")

RegisterNodeLocked == LockReturns("registerNode")

RegisterNodeUnlock == Unlock("registerNode") /\ UNCHANGED alias

\* updateStats installs the aggregates, lines 764-765
AggregateLock == LockCall("updateStats")

AggregateLocked == LockReturns("updateStats")

AggregateUnlock == Unlock("updateStats") /\ UNCHANGED alias

\* another goroutine calls Nodes, lines 349-358
NodesRLock ==
    /\ lpc["Nodes"] = "idle"
    /\ RLock("Nodes")
    /\ lpc' = [lpc EXCEPT !["Nodes"] = "Nodes"]
    /\ UNCHANGED <<rwWriter, rwWaiting, alias>>
    /\ LockFrame

NodesRUnlock ==
    /\ lpc["Nodes"] = "Nodes"
    /\ RUnlock("Nodes")
    /\ lpc' = [lpc EXCEPT !["Nodes"] = "idle"]
    /\ UNCHANGED <<rwWriter, rwWaiting, alias>>
    /\ LockFrame

LockStart == ClusterAtRest /\ InitUpdate /\ InitHandler /\ RestAtRest

LockNext ==
    \/ AliasRLock \/ AliasCheck \/ NameNodesRLock \/ NameNodesRUnlock \/ AliasRUnlock
    \/ SetAliasLock \/ SetAliasLocked \/ SetAliasUnlock
    \/ RegisterNodeLock \/ RegisterNodeLocked \/ RegisterNodeUnlock
    \/ AggregateLock \/ AggregateLocked \/ AggregateUnlock
    \/ NodesRLock \/ NodesRUnlock

LockSpec == LockStart /\ [][LockNext]_vars

----------------------------------------------------------------------------
(* The debug endpoint: getDebug, postDebug (controllers) over the observer  *)

DebugFrame ==
    /\ ViewFrame
    /\ UNCHANGED <<pwVars, dcVars, nsVars, lockVars>>

\* c.Request().RemoteAddr
Requesters == {<<"10.0.0.1", 5000>>, <<"10.0.0.2", 5000>>}

\* form.Service; "" when the form has none
Services == {"start", "restart", "stop", "status", ""}

\* form.DurationMins
DurationMins == -1..MaxMinutes

\* Observer.DebugStatus(): the record, off once it has expired
DebugStatusOf(d) == IF d.on /\ now < d.expiry THEN d ELSE DebugOff

DebugStatus == DebugStatusOf(debug)

\* Observer.StartDebug(initiator, dur): the record it leaves
StartDebug(initiator, dur) ==
    [on |-> TRUE, initiator |-> <<initiator>>, start |-> now, expiry |-> now + dur]

\* Observer.StopDebug(): the record it leaves
StopDebug == DebugOff

\* were "restart" not a service
observerCallNoRestart(service, remote, mins) ==
    CASE service = "start" -> [op |-> "StartDebug", initiator |-> remote,
                               dur |-> mins * Minute]
      [] service = "stop"  -> [op |-> "StopDebug"]
      [] OTHER             -> [op |-> "none"]

\* lines 59-68: the switch on form.Service
observerCall(service, remote, mins) ==
    CASE service \in {"start", "restart"} ->
             [op |-> "StartDebug", initiator |-> remote, dur |-> mins * Minute]
      [] service = "stop" -> [op |-> "StopDebug"]
      [] OTHER            -> [op |-> "none"]

\* lines 32-46 and 70-85: the body made from a DebugStatus
debugBody(res) ==
    IF res.on
      THEN [status |-> "success", debugging |-> "ON", initiator |-> res.initiator,
            start_time |-> res.start]
      ELSE [status |-> "success", debugging |-> "OFF", initiator |-> NoInitiator,
            start_time |-> 0]

\* postDebug, lines 49-86
postDebug(service, remote, mins) ==
    LET call == observerCall(service, remote, mins)
        after == CASE call.op = "StartDebug" -> StartDebug(call.initiator, call.dur)
                   [] call.op = "StopDebug"  -> StopDebug
                   [] OTHER                  -> debug
    IN /\ dreq' = [method |-> "POST", service |-> service, remote |-> remote,
                   duration |-> mins]
       /\ debug' = after
       /\ dres' = IF call.op = "none"
                    THEN [call |-> call, body |-> [status |-> "failure",
                                                  error |-> "Cluster not found"]]
                    ELSE [call |-> call, body |-> debugBody(DebugStatusOf(after))]
       /\ DebugFrame

PostDebug ==
    \E service \in Services, remote \in Requesters, mins \in DurationMins :
        postDebug(service, remote, mins)

\* getDebug, lines 30-47
getDebug(remote) ==
    /\ dreq' = [method |-> "GET", remote |-> remote]
    /\ dres' = [call |-> [op |-> "DebugStatus"], body |-> debugBody(DebugStatus)]
    /\ UNCHANGED debug
    /\ DebugFrame

GetDebug == \E remote \in Requesters : getDebug(remote)

DebugStart == ClusterAtRest /\ InitUpdate /\ InitHandler /\ RestAtRest

DebugNext == PostDebug \/ GetDebug \/ Tick

DebugSpec == DebugStart /\ [][DebugNext]_vars

----------------------------------------------------------------------------
(* The handlers against the refresh: C1, C2, C3 (NodeSpec)                  *)

\* C1: all aggregate values one read operation observes come from the same
\* refresh: the used and the free value of one Disk() or Memory() call are
\* both of refresh N or both of refresh N+1, never a mix.
NoTearing ==
    (hpc = "returned" /\ hres.op \in {"Disk", "Memory"})
        => hres.used.refresh = hres.free.refresh

\* the host AddNode(address, port) stands for: the first resolved address
AddNodeArgHost == Host(resolveHost(harg.address)[1], harg.port)

AddNodePost ==
    (hpc = "returned" /\ hres.op = "AddNode" /\ hres.res # "resolve error")
        => /\ hres.res = "nil" =>
                /\ AddNodeArgHost \in DOMAIN nodes
                /\ HostString(AddNodeArgHost) \in NodeList
           /\ hloc.held => hres.res = "Node already exists"

AddNodeRejectFrame ==
    (hpc = "add_check" /\ hpc' = "returned")
        => /\ hres'.res = "Node already exists"
           /\ nodes' = nodes /\ nodeObjs' = nodeObjs

RemovedNodeWasOff ==
    (hpc = "returned" /\ hres.op = "RemoveNodeByAddress" /\ hres.res = "nil")
        => hres.statusAtRemoval = "off"

----------------------------------------------------------------------------
(* Backup and Restore: C4, C5 (BackupSpec)                                  *)

BackupRejectStep ==
    \A c \in Callers :
        (/\ bpc[c] = "idle" /\ bpc'[c] # "idle"
         /\ active[bkind'[c]] # 0
         /\ handles[active[bkind'[c]]].status = "in-progress")
            => /\ bpc'[c] = "returned" /\ bres'[c] = "rejected"
               /\ active' = active /\ handles' = handles

\* C4: a Backup (Restore) call made while the active backup (restore) is in
\* progress returns the error and leaves the active handle as it is, so
\* CurrentBackup (CurrentRestore) still returns the first handle.
SecondStartRejected == [][BackupRejectStep]_vars

\* a call was rejected while a started handle is still in progress
RejectedWhileRunning ==
    \E c \in Callers :
        /\ bres[c] = "rejected"
        /\ active[bkind[c]] # 0
        /\ handles[active[bkind[c]]].status = "in-progress"
        /\ handles[active[bkind[c]]].executions > 0

\* C5: of concurrent Backup (Restore) calls at most one installs and starts
\* an in-progress handle: the cluster never has two in-progress backups (or
\* two in-progress restores) started.
AtMostOneStarted ==
    \A k \in Kinds :
        Cardinality({ h \in 1..Len(handles) :
                        /\ handles[h].kind = k
                        /\ handles[h].status = "in-progress"
                        /\ handles[h].executions > 0 }) <= 1

----------------------------------------------------------------------------
(* Inactivity: C6 (PingSpec)                                                *)

\* C6: shouldAutoRemove reports true if and only if the cluster is not
\* permanent, InactiveDurBeforeRemoval is greater than 0 and the time since
\* lastPing exceeds it.
AutoRemoveIff ==
    sar.called =>
        (sar.result <=> (~sar.permanent /\ sar.dur > 0 /\ sar.age > sar.dur))

\* a cluster that was pinged and then left alone long enough is eligible
StaleAfterPing == sar.called /\ sar.result /\ lastPing > 0

----------------------------------------------------------------------------
(* Alert mail: C7 (MailFairSpec)                                            *)

MailTaskBounded ==
    \A t \in DOMAIN mailTasks :
        /\ mailTasks[t].attempts <= MaxAttempts
        /\ mailTasks[t].sent <= 1
        /\ mailTasks[t].afterSent = 0
        /\ mailTasks[t].pc = "done" =>
              (mailTasks[t].sent = 1 \/ mailTasks[t].attempts = MaxAttempts)

MailTaskDone(t) == t \in DOMAIN mailTasks /\ mailTasks[t].pc = "done"

\* C7: a delivery task calls SendMail at most 5 times, makes no call after
\* the first that returns no error, and terminates after a success or after
\* the fifth failure.
MailDelivery ==
    /\ []MailTaskBounded
    /\ \A t \in 1..MaxAlerts : (t \in DOMAIN mailTasks) ~> MailTaskDone(t)

\* one task gave up after five failures, another one delivered on a retry
MailGaveUpAndDelivered ==
    \E t, u \in DOMAIN mailTasks :
        /\ mailTasks[t].pc = "done" /\ mailTasks[t].sent = 0
        /\ mailTasks[t].attempts = MaxAttempts
        /\ mailTasks[u].pc = "done" /\ mailTasks[u].sent = 1
        /\ mailTasks[u].attempts > 1

----------------------------------------------------------------------------
(* The refresh pipeline: C8, C9, C10 (Spec)                                 *)

DrainBeforeLastUpdate ==
    <<"updateCluster", "updateStats", "updateJobs", "updateUsers",
      "updateDatacenterInfo", "checkHealth", "SendEmailNotifications",
      "setUpdatedAt">>

\* C9 as stated: a refresh that passes the gate runs the six phases in
\* order, then starts the drain of new alerts, and only then sets lastUpdate.
DrainThenLastUpdate ==
    (upc = "returned" /\ gate = "pass" /\ ~panicked)
        => trace = DrainBeforeLastUpdate

IsPrefix(p, q) == Len(p) <= Len(q) /\ \A i \in 1..Len(p) : p[i] = q[i]

\* C9, amended: a refresh that passes the gate runs the six phases in order,
\* each after the previous one returned, then sets lastUpdate, and starts
\* the drain of new alerts only when update returns.
LastUpdateThenDrain ==
    (gate = "pass" /\ ~panicked)
        => /\ IsPrefix(trace, PhaseOrder)
           /\ upc = "returned" => trace = PhaseOrder
           /\ (Len(trace) = Len(PhaseOrder)) => lastUpdate = tm

\* a refresh ran to its end
RefreshCompleted ==
    upc = "returned" /\ gate = "pass" /\ ~panicked /\ Len(trace) = Len(PhaseOrder)

GateDecided ==
    /\ gate = "closed" => ~client
    /\ gate \in {"closed", "notdue"} =>
          /\ trace \in {<< >>, <<"SendEmailNotifications">>}
          /\ lastUpdate = lastUpdateAtCall
    /\ lastUpdate = 0 => now - lastUpdate >= updateInterval

GateStep ==
    /\ (upc = "isSet" /\ upc' # upc) =>
          /\ (gate' = "closed") <=> ~client
          /\ client => upc' = "shouldUpdate"
    /\ (upc = "shouldUpdate" /\ upc' # upc) =>
          /\ (gate' = "pass") <=> (now - lastUpdate >= updateInterval)
          /\ (gate' = "notdue") <=> (now - lastUpdate < updateInterval)
          /\ (gate' = "pass") => upc' = "uc_get"
    /\ (gate \in {"closed", "notdue"} \/ gate' \in {"closed", "notdue"}) =>
          UNCHANGED <<lastUpdate, nodes, nodeObjs, agg, jobs, users, privs, dcInfo>>

\* C10: with a nil client, or less than updateInterval seconds after
\* lastUpdate, update runs no phase and leaves lastUpdate, the node map, the
\* aggregates, jobs, users, roles and datacenter info unchanged; with the
\* client set and at least updateInterval seconds passed (always so for a
\* cluster never refreshed) the phases run.
UpdateGated == []GateDecided /\ [][GateStep]_vars

\* a call within the interval after a completed refresh returned
NotDueAfterRefresh == upc = "returned" /\ gate = "notdue" /\ lastUpdate > 0

----------------------------------------------------------------------------
(* Closing: C11 (CloseSpec)                                                 *)

\* C11: whatever closing calls are made, none fails, the client's Close()
\* runs at most once, and once it ran the handle is nil, IsSet is false
\* and Status is "off".
CloseOnceNeverFails ==
    /\ ~closeFailed
    /\ closes <= 1
    /\ closes = 1 => (~client /\ ~IsSet /\ Status = {"off"})

----------------------------------------------------------------------------
(* Locking: C12, C13 (NodeSpec)                                             *)

\* the handler's next step reads the field with c.mutex not held
HandlerReadsUnlocked(field) ==
    \/ field = "nodes" /\ hpc = "add_check"
    \/ field = "aggregates" /\ hpc = "disk_free"

\* update's next step writes the field, inside its critical section
UpdateWrites(field) ==
    \/ field = "nodes" /\ upc = "uc_write"
    \/ field = "aggregates" /\ upc = "us_install"

\* C12: every access to a mutable field of the cluster happens with c.mutex
\* held: no goroutine reads a field without the lock while another one is
\* writing it.
NoUnlockedAccess ==
    \A field \in {"nodes", "aggregates"} :
        ~(HandlerReadsUnlocked(field) /\ UpdateWrites(field) /\ mutexW = "update")

\* update is in the fan-out or the aggregation of updateStats
InFanOut == upc \in {"us_spawn", "us_wait"}

FanOutUnlocked ==
    InFanOut =>
        /\ mutexW = "none"
        /\ \A f \in AggFields : agg[f] < refreshNo

ReaderDuringFanOut ==
    (InFanOut /\ hpc = "idle" /\ hpc' = "returned"
        /\ hres'.op = "NamespaceSetsInfo")
        => /\ hres'.sets = agg.aggNsSetStats
           /\ hres'.sets < refreshNo
           /\ upc' = upc

\* C13: during the node updates and the aggregation of updateStats the
\* write lock is not held; a reader that arrives then is not blocked and
\* gets the aggregates of the previous refresh.
StatsCollectedUnlocked == []FanOutUnlocked /\ [][ReaderDuringFanOut]_vars

\* a reader returned the previous set stats while node updates were running
ReadDuringFanOut ==
    /\ upc = "us_wait" /\ usTasks # {}
    /\ hpc = "returned" /\ hres.op = "NamespaceSetsInfo"
    /\ hres.sets = refreshNo - 1

----------------------------------------------------------------------------
(* RequestInfoAll: C14 (InfoSpec)                                           *)

\* the message node i sent to the channel
InfoSent(i) == CHOOSE r \in { hloc.ch[k] : k \in 1..Len(hloc.ch) } : r.Node = i

InfoReturned == hpc = "returned" /\ hres.op = "RequestInfoAll"

\* C14 as stated: one entry for every node, the response when the request
\* succeeded with a non-empty response and the empty string otherwise, also
\* when the request failed.
InfoEntryEmptyOnFailure ==
    InfoReturned =>
        /\ DOMAIN hres.res = hloc.nodes
        /\ \A i \in hloc.nodes :
              hres.res[i] = IF InfoSent(i).Err = << >> /\ InfoSent(i).Res # EmptyString
                              THEN InfoSent(i).Res ELSE EmptyString

\* C14, amended: one entry for every node: the response when the request
\* succeeded with a non-empty response, the error text when it failed, the
\* empty string otherwise; the error is non-nil iff a request failed, and
\* joins the error text of every failed node.
InfoEntryErrorTextOnFailure ==
    InfoReturned =>
        /\ DOMAIN hres.res = hloc.nodes
        /\ \A i \in hloc.nodes :
              hres.res[i] = IF InfoSent(i).Err # << >> THEN InfoSent(i).Err
                            ELSE IF InfoSent(i).Res # EmptyString THEN InfoSent(i).Res
                            ELSE EmptyString
        /\ (hres.err # << >>) <=> (\E i \in hloc.nodes : InfoSent(i).Err # << >>)
        /\ { hres.err[k] : k \in 1..Len(hres.err) }
              = { InfoSent(i).Err : i \in { j \in hloc.nodes : InfoSent(j).Err # << >> } }
        /\ Len(hres.err) = Cardinality({ j \in hloc.nodes : InfoSent(j).Err # << >> })

\* of two nodes one failed and one answered
InfoOneFailedOneAnswered ==
    /\ InfoReturned
    /\ \E i, j \in hloc.nodes :
          /\ InfoSent(i).Err # << >>
          /\ InfoSent(j).Err = << >> /\ InfoSent(j).Res # EmptyString

----------------------------------------------------------------------------
(* Builds: C15, C16 (BuildSpec)                                             *)

\* the place of a build in the dotted order: major, minor and patch weigh
\* in this order; the empty build comes before all
BuildRank(b) == IF b = << >> THEN -1 ELSE b[1] * 10000 + b[2] * 100 + b[3]

\* the builds below oldest, from the nodes
BuildsBelow(oldest) ==
    { qnodes[i].build : i \in { j \in DOMAIN qnodes :
                                  BuildRank(qnodes[j].build) < BuildRank(oldest) } }

NodesRunning(b) == { QueryAddress(i) : i \in { j \in DOMAIN qnodes : qnodes[j].build = b } }

VersionSupportedReturned == qres.op = "versionSupported"

\* C15 as stated: versionSupported returns nil iff every node's build is at
\* least min; otherwise the error lists every offending build with the
\* addresses of all nodes running it.
ErrorListsEveryOffender ==
    VersionSupportedReturned =>
        /\ ~qres.err <=> BuildsBelow(qres.oldest) = {}
        /\ qres.err => qres.builds = BuildsBelow(qres.oldest)

\* C15, amended: versionSupported returns nil iff every node's build is at
\* least min; otherwise the error names one offending build, with the
\* addresses of all nodes running that build.
ErrorNamesOneOffender ==
    VersionSupportedReturned =>
        /\ ~qres.err <=> BuildsBelow(qres.oldest) = {}
        /\ qres.err =>
              /\ Cardinality(qres.builds) = 1
              /\ qres.builds \subseteq BuildsBelow(qres.oldest)
              /\ \A b \in qres.builds : qres.nodeList = NodesRunning(b)

\* two nodes on one offending build, a third one on a supported build
TwoNodesOnOldBuild ==
    /\ VersionSupportedReturned /\ qres.err
    /\ Cardinality(qres.nodeList) = 2
    /\ \E i \in DOMAIN qnodes : BuildRank(qnodes[i].build) >= BuildRank(qres.oldest)

\* C16: NodeCompatibility returns "homogeneous" iff the nodes report at most
\* one distinct build (also with no node), and "compatible" otherwise.
HomogeneousIffOneBuild ==
    qres.op = "NodeCompatibility" =>
        /\ qres.res \in {"homogeneous", "compatible"}
        /\ (qres.res = "homogeneous")
              <=> Cardinality({ qnodes[i].build : i \in DOMAIN qnodes }) <= 1

\* a cluster of no node is homogeneous
NoNodeHomogeneous ==
    qres.op = "NodeCompatibility" /\ qnodes = << >> /\ qres.res = "homogeneous"

----------------------------------------------------------------------------
(* Alias: C17 (AliasSpec)                                                   *)

\* the cluster names the nodes report, "" and "null" left out
ReportedNames ==
    { StringPtr(qnodes[i].cname) : i \in { j \in DOMAIN qnodes : qnodes[j].cname \notin {"", "null"} } }

\* SetAlias(a) stores a, and nothing for the empty text
SetAliasStores ==
    qres'.op = "SetAlias" =>
        alias' = IF qres'.arg = "" THEN NoAlias ELSE StringPtr(qres'.arg)

\* the alias stays as it is until the next SetAlias
AliasKeptUntilSet == alias' # alias => qres'.op = "SetAlias"

\* what Alias returns: the alias when one is set, else a reported cluster
\* name, or nothing when no node reports one
AliasResult ==
    qres.op = "Alias" =>
        /\ alias # NoAlias => alias[1] # "" /\ qres.res = alias
        /\ alias = NoAlias =>
              IF ReportedNames = {} THEN qres.res = NoAlias
              ELSE qres.res \in ReportedNames

\* C17: SetAlias("") clears the alias, and Alias() then returns the cluster
\* name reported by the nodes (a name neither empty nor "null") or nothing;
\* after SetAlias(a) with a non-empty a, Alias() returns a until the next
\* SetAlias.
AliasContract == []AliasResult /\ [][SetAliasStores /\ AliasKeptUntilSet]_vars

\* with no alias set and one node reporting "null", another one "prod",
\* Alias returned "prod"
AliasFellBackToName ==
    /\ qres.op = "Alias" /\ alias = NoAlias /\ qres.res = StringPtr("prod")
    /\ \E i \in DOMAIN qnodes : qnodes[i].cname = "null"

----------------------------------------------------------------------------
(* Jobs: C18 (JobsSpec)                                                     *)

\* C18: Jobs() returns the empty list before the first store of updateJobs,
\* and otherwise exactly the complete list of the updateJobs that returned
\* last; never the list of an updateJobs still in its loop.
JobsCompleteList ==
    jread.op = "Jobs" =>
        jread.res = IF jobs = 0 THEN << >> ELSE jlast

\* Jobs was called inside the loop of the second updateJobs, which had
\* collected a job already, and returned the non-empty list of the first
JobsReadWhileCollecting ==
    /\ jread.op = "Jobs" /\ jpc = "collect"
    /\ jobs = 1 /\ jlocal # << >> /\ jread.res # << >> /\ jread.res # jlocal

----------------------------------------------------------------------------
(* Alert mail started by update: C19 (NotifySpec)                           *)

UpdateRunning == upc # "idle"

\* a delivery goroutine that has not finished
MailPending == \E t \in DOMAIN mailTasks : mailTasks[t].pc # "done"

\* C19: mail delivery never blocks a refresh: whatever the notifications and
\* the deliveries are doing, a running update can take its next step, up to
\* its return; and with no mailer host configured there is no SendMail
\* attempt at all.
MailNeverBlocksRefresh ==
    /\ UpdateRunning => ENABLED RefreshNext
    /\ ~mailerHost => mailTasks = << >>

\* the second update has returned while the notifications it started have
\* not run and a delivery started by the first is still going on
ReturnedBeforeDelivery ==
    /\ upc = "returned" /\ spawned > 0 /\ MailPending

----------------------------------------------------------------------------
(* The alert bucket: C20 (DrainSpec)                                        *)

\* a DrainNewAlerts has returned, none is under way
DrainReturned ==
    /\ \E d \in DOMAIN drainers : drainers[d].pc \in {"mail", "done"}
    /\ \A d \in DOMAIN drainers : drainers[d].pc # "advance"

\* a drain that follows a returned one with no insertion in between is empty
SecondDrainEmpty ==
    \A d \in DOMAIN drainers :
        (DrainReturned /\ abSince = 0 /\ DrainRead(d))
            => drainers'[d].from = drainers'[d].to

HandedAtMostOnce == \A id \in 1..MaxAlerts : handed[id] <= 1

\* C20: draining is monotonic: of two consecutive DrainNewAlerts with no
\* insertion in between the second returns nothing, and across all
\* invocations of SendEmailNotifications each alert is handed to delivery
\* at most once.
DrainMonotonic == []HandedAtMostOnce /\ [][SecondDrainEmpty]_vars

\* the first half alone, which holds also with several drainers
DrainSecondEmpty == [][SecondDrainEmpty]_vars

----------------------------------------------------------------------------
(* The password: C21 (PasswordSpec)                                         *)

\* the call is one of the three the claim names
PasswordCallRefused ==
    \/ pwres.newPass = pwres.currentPass
    \/ pwres.passwordWas # << >> /\ pwres.passwordWas[1] # pwres.currentPass
    \/ pwres.userWas # << >> /\ pwres.userWas[1] # pwres.user

\* C21: UpdatePassword returns an error and changes neither the stored
\* password nor anything on the server (ChangePassword is not called) when
\* newPass equals currentPass, when a stored password exists and differs from
\* currentPass, or when a stored user exists and differs from user; the
\* stored password is replaced by newPass only when ChangePassword succeeds,
\* and is unchanged when ChangePassword fails.
PasswordContract ==
    pwres.op = "UpdatePassword" =>
        /\ PasswordCallRefused =>
              /\ pwres.err # "nil" /\ ~pwres.called
              /\ cpassword = pwres.passwordWas /\ serverPw = pwres.serverWas
        /\ ~PasswordCallRefused => pwres.called
        /\ (pwres.called /\ pwres.err = "nil") => cpassword = <<pwres.newPass>>
        /\ ~(pwres.called /\ pwres.err = "nil") =>
              /\ cpassword = pwres.passwordWas /\ serverPw = pwres.serverWas

\* a call with the wrong current password was refused, the password kept
WrongCurrentPasswordRefused ==
    /\ pwres.op = "UpdatePassword"
    /\ pwres.newPass # pwres.currentPass
    /\ pwres.passwordWas # << >> /\ pwres.passwordWas[1] # pwres.currentPass
    /\ pwres.err = "Invalid current password"

----------------------------------------------------------------------------
(* The datacenter view: C22, C29 (DatacenterSpec)                           *)

Listed(e) == { dcEntries[e].Nodes[k] : k \in DOMAIN dcEntries[e].Nodes }
ListedAddrs == UNION { Listed(e) : e \in DOMAIN dcEntries }
Elements(list) == { list[i] : i \in DOMAIN list }

\* the namespaces of every entry that lists a node of cluster id
AdvertisedFor(id) ==
    UNION { Elements(dcEntries[e].namespaces) :
              e \in { f \in DOMAIN dcEntries : \E a \in Listed(f) : monitoredBy[a] = id } }

SplittingAddrs ==
    { a \in ListedAddrs :
        \A e \in DOMAIN dcEntries :
            a \in Listed(e) => \A b \in Listed(e) : ~SplitHostPortFails(b) }

\* C29: every listed remote address that no cluster monitors has its own
\* synthetic entry in _remotes under that address, whose seednode and only
\* node are that address, with status "off"; a monitored remote address has
\* no synthetic entry. (Stated for the addresses of well-formed entries.)
OwnSyntheticRemote ==
    dcpc = "returned" =>
        \A a \in SplittingAddrs :
            IF monitoredBy[a] = ""
              THEN /\ remoteNodeStats[a].present /\ ~remoteNodeStats[a].isNil
                   /\ remoteNodeStats[a].seednode = a
                   /\ remoteNodeStats[a].node = a
                   /\ remoteNodeStats[a].status = "off"
              ELSE ~remoteNodeStats[a].present \/ remoteNodeStats[a].isNil

----------------------------------------------------------------------------
(* The namespace view: C23 (NamespaceSpec)                                  *)

\* the nodes that report an available_pct of at least 0
NsReporting == { n \in DOMAIN nsAvail : nsAvail[n].has /\ nsAvail[n].pct >= 0 }

NsMinimum == CHOOSE v \in { nsAvail[n].pct : n \in NsReporting } :
                 \A n \in NsReporting : v <= nsAvail[n].pct

\* the place of node n in the order of the visit
NsPlace(n) == CHOOSE i \in DOMAIN nsOrder : nsOrder[i] = n

\* C23: least_available_pct is {node, value} of the minimum available_pct
\* over the nodes that report a value of at least 0, ties going to the node
\* met first, whatever the order of the visit and whichever nodes report
\* none; it is {nil, nil} only when no node reports a value of at least 0.
LeastAvailableIsMinimum ==
    nspc = "returned" =>
        IF NsReporting = {} THEN nsLeast = NilLeast
        ELSE /\ nsLeast.value = NsMinimum
             /\ nsLeast.node \in NsReporting
             /\ nsAvail[nsLeast.node].pct = NsMinimum
             /\ \A n \in NsReporting :
                   nsAvail[n].pct = NsMinimum => NsPlace(nsLeast.node) <= NsPlace(n)

\* the same for the visits in which no node with the namespace lacks the value
LeastAvailableAllReport == 
    (\A n \in DOMAIN nsAvail : nsAvail[n].has => nsAvail[n].pct >= 0)
        => LeastAvailableIsMinimum

----------------------------------------------------------------------------
(* updateCluster: C24 (Spec)                                                *)

\* the loop of updateCluster is through, updateCluster returns
UpdateClusterReturns == upc = "uc_next" /\ ucTodo = {}

\* the Nodes of the map whose underlying handle is the client node n
RepresentedBy(n) == { i \in Nodes : nodeObjs[i].orig = n }

\* a step of updateCluster leaves every entry of the node map in place
NoEntryRemoved ==
    upc \in {"uc_next", "uc_set", "uc_lock", "uc_write"} =>
        \A h \in DOMAIN nodes : h \in DOMAIN nodes' /\ nodes'[h] = nodes[h]

\* C24: after updateCluster returns, every node the client reported is
\* represented by exactly one Node of the node map, whose underlying handle
\* is that client node (a match by address, else by id, is reused; a node
\* matching neither gets one new entry), and updateCluster removes no entry.
ReportedNodesRepresented ==
    /\ [](UpdateClusterReturns =>
            \A n \in ucReported : Cardinality(RepresentedBy(n)) = 1)
    /\ [][NoEntryRemoved]_vars

----------------------------------------------------------------------------
(* updateStats against AddNode and RemoveNodeByAddress: C25 (NodeSpec)      *)

\* C25: updateStats starts one node update per registered Node and waits for
\* exactly the updates it started, under any interleaving with AddNode and
\* RemoveNodeByAddress: while it waits, the count the join waits for equals
\* the number of started updates that have not finished, and the join is
\* never signalled more often than it expects.
JoinMatchesStarted ==
    /\ upc = "us_wait" => wgCount = Cardinality(usTasks)
    /\ ~crashed

\* the join waits for an update that was never started
JoinWaitsForever == upc = "us_wait" /\ usTasks = {} /\ wgCount > 0

----------------------------------------------------------------------------
(* the cluster mutex is not taken twice by one goroutine: C26 (LockSpec)    *)

\* a goroutine that holds a read lock, waits for another one, and has a
\* writer blocked in Lock waiting for it
BlockedForever ==
    /\ lpc["Alias"] = "Name" /\ rwReaders["Alias"] > 0
    /\ rwWaiting # {}

\* C26: no operation takes c.mutex while its goroutine holds it, Alias falling
\* back to Name included, and so no goroutine blocks forever behind a writer
\* that waits in SetAlias, in the aggregate swap-in or in registerNode.
MutexNotReacquired ==
    /\ \A g \in LockOps : rwReaders[g] <= 1
    /\ \A g \in LockOps : rwReaders[g] > 0 => rwWriter # g /\ g \notin rwWaiting
    /\ ~BlockedForever

----------------------------------------------------------------------------
(* updateUsers inside a refresh: C27 (Spec)                                 *)

\* a refresh passed the gate and ran to its return without a panic
RefreshRanThrough == upc = "returned" /\ gate = "pass" /\ ~panicked

\* the phases after updateUsers ran in this refresh
LaterPhasesRan == RefreshRanThrough => dcInfo = refreshNo

\* this refresh left the users and roles of an earlier one in place
UsersRefreshSkipped == RefreshRanThrough /\ users < refreshNo

\* C27: after a refresh that passes the gate, users and roles are the results
\* of that refresh's QueryUsers and QueryRoles, a failed privilege query of
\* the current user included, and the later phases of the refresh have run.
UsersFollowRefresh ==
    RefreshRanThrough => users = refreshNo /\ dcInfo = refreshNo

----------------------------------------------------------------------------
(* CurrentBackup and CurrentRestore after a start: C28 (BackupSpec)         *)

\* the handles of kind k whose start succeeded: saved, and Execute was called
StartedHandles(k) ==
    { h \in 1..Len(handles) : handles[h].kind = k /\ handles[h].executions > 0 }

\* the one started last: handles are numbered in the order they were made
LastStarted(k) == CHOOSE h \in StartedHandles(k) : \A g \in StartedHandles(k) : g <= h

\* no call of kind k is between its check and its return
NoStartInFlight(k) ==
    \A c \in Callers : bkind[c] = k => bpc[c] \in {"idle", "returned"}

\* a start of kind k failed in Save and nothing is current any more
SaveFailureDropsHandle(k) ==
    /\ StartedHandles(k) # {} /\ NoStartInFlight(k) /\ active[k] = 0
    /\ \E c \in Callers : bkind[c] = k /\ bres[c] = "save error"

\* a backup ran to its end, and the next start failed in Save
FailedSaveAfterFinishedBackup ==
    /\ SaveFailureDropsHandle("backup")
    /\ Len(handles) = 2 /\ handles[1].status = "success" /\ ~handles[2].saved

\* C28: once a Backup (Restore) start succeeded, CurrentBackup (CurrentRestore)
\* returns the handle of the last successful start; a later start that is
\* rejected or whose Save fails leaves it returning that handle.
CurrentKeepsLastStarted ==
    \A k \in Kinds :
        StartedHandles(k) # {} /\ NoStartInFlight(k) => active[k] = LastStarted(k)

----------------------------------------------------------------------------
(* the placeholder of AddNode and updateCluster: C30 (NodeSpec)             *)

\* the Nodes of the map made by AddNode that have no client handle yet
Placeholders == { i \in Nodes : nodeObjs[i].orig = NoNode }

\* updateCluster looks the next reported node up and finds the placeholder at
\* its host:port
LookupFindsPlaceholder ==
    (upc = "uc_next" /\ upc' \in {"uc_set", "uc_lock"}) =>
        \A i \in Placeholders :
            nodeObjs[i].host = ucCur'.host => upc' = "uc_set" /\ ucNode' = i

\* the placeholder found receives the handle, and the map gets no new entry
PlaceholderReceivesHandle ==
    (upc = "uc_set" /\ upc' = "uc_next" /\ ucNode \in Placeholders) =>
        /\ nodeObjs' = [nodeObjs EXCEPT ![ucNode].orig = ucCur]
        /\ nodes' = nodes

\* a step of the refresh leaves every placeholder alone whose host:port is
\* not the one of the reported node it is handling
PlaceholderKept ==
    UNCHANGED hVars =>
        \A i \in Placeholders :
            nodeObjs[i].host # ucCur.host =>
                /\ i \in Placeholders'
                /\ nodeObjs'[i] = nodeObjs[i]
                /\ \A h \in DOMAIN nodes : nodes[h] = i => h \in DOMAIN nodes' /\ nodes'[h] = i

\* C30: the placeholder AddNode makes is bound to the client node reported at
\* its host:port by the updateCluster that finds it: it receives the handle,
\* no second entry is made, and until then the refresh leaves it in the map
\* as it is.
PlaceholderBinding ==
    [][LookupFindsPlaceholder /\ PlaceholderReceivesHandle /\ PlaceholderKept]_vars

\* AddNode made the only Node there is, and updateCluster has bound it to the
\* client node reported at its host:port
PlaceholderBound ==
    /\ hpc = "returned" /\ hres = [op |-> "AddNode", res |-> "nil"]
    /\ Len(nodeObjs) = 1 /\ DOMAIN nodes = {nodeObjs[1].host}
    /\ upc = "uc_next" /\ ucNode = 1 /\ ucCur # NoNode
    /\ nodeObjs[1].orig = ucCur /\ ucCur.host = nodeObjs[1].host

----------------------------------------------------------------------------
(* update signals its wait group: C31 (WaitGroupSpec)                       *)

\* a call of update that returned after a panic had signalled its wait group
DoneAfterPanic == upc = "returned" /\ panicked /\ wgGiven /\ wgDones = 1

\* every way out of update was taken by a call with a wait group
DoneOnGate == upc = "returned" /\ gate \in {"closed", "notdue"} /\ wgGiven /\ wgDones = 1

\* the model holds no more Node objects: registerNode is not taken
NodeBoundReached == upc = "uc_lock" /\ Len(nodeObjs) >= MaxNodes

\* C31: a call update(wg) with a non-nil wg signals wg.Done() exactly once
\* before it returns, whether the client is not set, the refresh is not due,
\* the refresh completed or a phase panicked: the count of its signals never
\* exceeds one, is one at the return, and every such call gets there.
DoneExactlyOnce ==
    /\ [](wgDones <= 1 /\ (~wgGiven => wgDones = 0))
    /\ []((upc = "returned" /\ wgGiven) => wgDones = 1)
    /\ []((upc # "returned" /\ upc # "idle") => wgDones = 0)
    /\ (upc = "isSet" /\ wgGiven) ~>
           ((upc = "returned" /\ wgDones = 1) \/ NodeBoundReached)

----------------------------------------------------------------------------
(* lastPing under the refresh: C32 (KeepAliveSpec)                          *)

\* a step of BuildDetails, alone or inside versionSupported
BuildDetailsStep ==
    /\ qres'.op \in {"BuildDetails", "versionSupported"}
    /\ UNCHANGED <<clusterVars, updVars, envVars, sar>>

\* a step of update or of one of its phases
RefreshStep == updVars' # updVars \/ clusterVars' # clusterVars

\* refreshed in every call, never pinged, and the removal scan says yes
RefreshedYetRemovable ==
    /\ refreshNo = MaxUpdates /\ upc = "returned" /\ gate = "pass" /\ lastUpdate > 0
    /\ lastPing = 0
    /\ sar.called /\ sar.result

\* C32: update and its phases leave lastPing unchanged; lastPing changes only
\* in updateLastestPing, called by BuildDetails (and so by versionSupported),
\* which sets it to the current time; a cluster that is not permanent and was
\* never pinged is eligible for removal once the limit has passed, however
\* often it is refreshed.
RefreshKeepsLastPing ==
    /\ [][RefreshStep => lastPing' = lastPing]_vars
    /\ [][lastPing' # lastPing => BuildDetailsStep]_vars
    /\ [][BuildDetailsStep => lastPing' = now]_vars
    /\ [](sar.called =>
            sar.result = (~sar.permanent /\ sar.dur > 0 /\ sar.age > sar.dur))
    /\ []((lastPing = 0 /\ ~permanent /\ inactiveDur > 0 /\ now > inactiveDur)
            => shouldAutoRemove)

----------------------------------------------------------------------------
(* the debug endpoint: C33 (DebugSpec)                                      *)

\* what a POST has to call on the observer
PostCalls ==
    dreq.method = "POST" =>
        /\ dreq.service \in {"start", "restart"} =>
              dres.call = [op |-> "StartDebug", initiator |-> dreq.remote,
                           dur |-> dreq.duration * 60]
        /\ dreq.service = "stop" => dres.call = [op |-> "StopDebug"]
        /\ dreq.service \notin {"start", "restart", "stop"} =>
              dres.call.op = "none" /\ dres.body.status = "failure"

\* a POST with another service leaves the debug record as it is
OtherServiceKeepsDebug ==
    (dreq'.method = "POST" /\ dreq'.service \notin {"start", "restart", "stop"}
        /\ now' = now) => debug' = debug

\* what a GET reports, against the DebugStatus of the step it ran in
GetReports ==
    (dreq'.method = "GET" /\ dres'.call.op = "DebugStatus" /\ now' = now
        /\ <<dreq, dres>>' # <<dreq, dres>>) =>
        IF DebugStatus.on
          THEN dres'.body.debugging = "ON" /\ dres'.body.initiator = debug.initiator
          ELSE dres'.body.debugging = "OFF" /\ dres'.body.initiator = NoInitiator

\* an unknown service refused while debugging is on
RefusedWhileOn ==
    /\ dreq.method = "POST" /\ dreq.service = "status"
    /\ dres.call.op = "none" /\ DebugStatus.on

\* a GET answered ON
GetAnsweredOn ==
    dreq.method = "GET" /\ dres.body.debugging = "ON" /\ debug.initiator = <<dreq.remote>>

\* a restart, made after time has passed, answered ON
RestartAnswered ==
    /\ dreq.method = "POST" /\ dreq.service = "restart"
    /\ dres.call.op = "StartDebug" /\ dres.body.debugging = "ON"
    /\ debug.on /\ debug.start > StartTime

\* C33: a POST with service "start" or "restart" calls StartDebug with the
\* requester's remote address and the duration in minutes, "stop" calls
\* StopDebug, any other service returns an error, calls neither and leaves
\* the debug state as it is; a GET reports "ON" with the initiator iff
\* DebugStatus reports on, and "OFF" with no initiator otherwise.
DebugEndpoint ==
    /\ []PostCalls
    /\ [][OtherServiceKeepsDebug /\ GetReports]_vars

====
